---------------------------- MODULE Spec2Model ----------------------------
(***************************************************************************)
(* Wormhole chess: the board topology graph, the per-piece move            *)
(* generation and the click-driven move executor of the ChessboardScene    *)
(* component.                                                              *)
(*                                                                         *)
(* Squares and piece identifiers are the strings of the source.  JavaScript*)
(* string operations (notation[0], endsWith, includes, startsWith) are     *)
(* evaluated on the character sequence of the string (SquareChars,         *)
(* PieceInfo).  A JavaScript object is a sequence of entries in insertion  *)
(* order wherever the code iterates over it (Object.entries(...).find).    *)
(***************************************************************************)
EXTENDS Integers, Sequences, FiniteSets, TLC

\* JavaScript null / undefined (an absent edge, an unset state value).
null == "null"

(***************************************************************************)
(* Board graph: square -> (direction -> neighbouring square or null).      *)
(***************************************************************************)
boardGraph ==
  "a1" :> ("N" :> "a2" @@ "E" :> "b1" @@ "S" :> null @@ "W" :> null @@ "NE" :> "b2")
  @@ "a2" :> ("N" :> "a3" @@ "E" :> "b2" @@ "S" :> "a1" @@ "W" :> null @@ "NE" :> "b3" @@ "SE" :> "b1")
  @@ "a3" :> ("N" :> "a4" @@ "E" :> "b3" @@ "S" :> "a2" @@ "W" :> null @@ "NE" :> "b4" @@ "SE" :> "b2")
  @@ "a4" :> ("N" :> "a5" @@ "E" :> "b4" @@ "S" :> "a3" @@ "W" :> null @@ "NE" :> "b5" @@ "SE" :> "b3")
  @@ "a5" :> ("N" :> "a6" @@ "E" :> "b5" @@ "S" :> "a4" @@ "W" :> null @@ "NE" :> "b6" @@ "SE" :> "b4")
  @@ "a6" :> ("N" :> "a7" @@ "E" :> "b6" @@ "S" :> "a5" @@ "W" :> null @@ "NE" :> "b7" @@ "SE" :> "b5")
  @@ "a7" :> ("N" :> "a8" @@ "E" :> "b7" @@ "S" :> "a6" @@ "W" :> null @@ "NE" :> "b8" @@ "SE" :> "b6")
  @@ "a8" :> ("N" :> null @@ "E" :> "b8" @@ "S" :> "a7" @@ "W" :> null @@ "SE" :> "b7")
  @@ "b1" :> ("N" :> "b2" @@ "E" :> "c1" @@ "S" :> null @@ "W" :> "a1" @@ "NE" :> "c2" @@ "NW" :> "a2")
  @@ "b2" :> ("N" :> "b3" @@ "E" :> "c2" @@ "S" :> "b1" @@ "W" :> "a2" @@ "NE" :> "c3" @@ "SE" :> "c1" @@ "NW" :> "a3" @@ "SW" :> "a1")
  @@ "b3" :> ("N" :> "b4" @@ "E" :> "c3" @@ "S" :> "b2" @@ "W" :> "a3" @@ "NE" :> "c4" @@ "SE" :> "c2" @@ "NW" :> "a4" @@ "SW" :> "a2")
  @@ "b4" :> ("N" :> "b5" @@ "E" :> "c4" @@ "S" :> "b3" @@ "W" :> "a4" @@ "NE" :> "c5" @@ "SE" :> "c3" @@ "NW" :> "a5" @@ "SW" :> "a3")
  @@ "b5" :> ("N" :> "b6" @@ "E" :> "c5" @@ "S" :> "b4" @@ "W" :> "a5" @@ "NE" :> "c6" @@ "SE" :> "c4" @@ "NW" :> "a6" @@ "SW" :> "a4")
  @@ "b6" :> ("N" :> "b7" @@ "E" :> "c6" @@ "S" :> "b5" @@ "W" :> "a6" @@ "NE" :> "c7" @@ "SE" :> "c5" @@ "NW" :> "a7" @@ "SW" :> "a5")
  @@ "b7" :> ("N" :> "b8" @@ "E" :> "c7" @@ "S" :> "b6" @@ "W" :> "a7" @@ "NE" :> "c8" @@ "SE" :> "c6" @@ "NW" :> "a8" @@ "SW" :> "a6")
  @@ "b8" :> ("N" :> null @@ "E" :> "c8" @@ "S" :> "b7" @@ "W" :> "a8" @@ "NE" :> null @@ "SE" :> "c7" @@ "NW" :> null @@ "SW" :> "a7")
  @@ "c1" :> ("N" :> "c2" @@ "E" :> "d1" @@ "S" :> null @@ "W" :> "b1" @@ "NE" :> "d2" @@ "NW" :> "b2")
  @@ "c2" :> ("N" :> "c3" @@ "E" :> "d2" @@ "S" :> "c1" @@ "W" :> "b2" @@ "NE" :> "d3" @@ "SE" :> "d1" @@ "NW" :> "b3" @@ "SW" :> "b1")
  @@ "c3" :> ("N" :> "c4" @@ "E" :> "d3" @@ "S" :> "c2" @@ "W" :> "b3" @@ "in" :> "x1" @@ "cw" :> "c4" @@ "ccw" :> "d3" @@ "SW" :> "b2" @@ "NW" :> "b4" @@ "SE" :> "d2" @@ "idl" :> "x2" @@ "idr" :> "d4" @@ "odl" :> "d2" @@ "od" :> "b2" @@ "odr" :> "b4")
  @@ "c4" :> ("N" :> "c5" @@ "E" :> "x2" @@ "S" :> "c3" @@ "W" :> "b4" @@ "in" :> "x2" @@ "cw" :> "c5" @@ "ccw" :> "c3" @@ "SW" :> "b3" @@ "NW" :> "b5" @@ "NE" :> "x3" @@ "SE" :> "x1" @@ "idl" :> "x3" @@ "idr" :> "x1" @@ "odl" :> "b3" @@ "odr" :> "b5")
  @@ "c5" :> ("N" :> "c6" @@ "E" :> "x3" @@ "S" :> "c4" @@ "W" :> "b5" @@ "in" :> "x3" @@ "cw" :> "c6" @@ "ccw" :> "c4" @@ "SW" :> "b4" @@ "NW" :> "b6" @@ "NE" :> "x4" @@ "SE" :> "x2" @@ "idl" :> "x4" @@ "idr" :> "x2" @@ "odl" :> "b4" @@ "odr" :> "b6")
  @@ "c6" :> ("N" :> "c7" @@ "E" :> "d6" @@ "S" :> "c5" @@ "W" :> "b6" @@ "in" :> "x4" @@ "cw" :> "d6" @@ "ccw" :> "c5" @@ "SW" :> "b5" @@ "NW" :> "b7" @@ "NE" :> "d7" @@ "idl" :> "d5" @@ "idr" :> "x3" @@ "odl" :> "b5" @@ "od" :> "b7" @@ "odr" :> "d7")
  @@ "c7" :> ("N" :> "c8" @@ "E" :> "d7" @@ "S" :> "c6" @@ "W" :> "b7" @@ "NW" :> "b8" @@ "SW" :> "b6" @@ "NE" :> "d8" @@ "SE" :> "d6")
  @@ "c8" :> ("N" :> null @@ "E" :> "d8" @@ "S" :> "c7" @@ "W" :> "b8" @@ "SW" :> "b7" @@ "SE" :> "d7")
  @@ "x1" :> ("out" :> "c3" @@ "cw" :> "x2" @@ "in" :> "x1'" @@ "ccw" :> "d4" @@ "idl" :> "x2'" @@ "idr" :> "d4'" @@ "odl" :> "d3" @@ "odr" :> "c4")
  @@ "x2" :> ("out" :> "c4" @@ "cw" :> "x3" @@ "in" :> "x2'" @@ "ccw" :> "x1" @@ "idl" :> "x3'" @@ "idr" :> "x1'" @@ "odl" :> "c3" @@ "odr" :> "c5")
  @@ "x3" :> ("out" :> "c5" @@ "cw" :> "x4" @@ "in" :> "x3'" @@ "ccw" :> "x2" @@ "idl" :> "x4'" @@ "idr" :> "x2'" @@ "odl" :> "c4" @@ "odr" :> "c6")
  @@ "x4" :> ("out" :> "c6" @@ "cw" :> "d5" @@ "in" :> "x4'" @@ "ccw" :> "x3" @@ "idl" :> "d5'" @@ "idr" :> "x3'" @@ "odl" :> "c5" @@ "odr" :> "d6")
  @@ "d1" :> ("N" :> "d2" @@ "E" :> "e1" @@ "S" :> null @@ "W" :> "c1" @@ "NE" :> "e2" @@ "NW" :> "c2")
  @@ "d2" :> ("N" :> "d3" @@ "E" :> "e2" @@ "S" :> "d1" @@ "W" :> "c2" @@ "NE" :> "e3" @@ "SE" :> "e1" @@ "NW" :> "c3" @@ "SW" :> "c1")
  @@ "d3" :> ("N" :> "d4" @@ "E" :> "e3" @@ "S" :> "d2" @@ "W" :> "c3" @@ "in" :> "d4" @@ "out" :> "d2" @@ "cw" :> "c3" @@ "ccw" :> "e3" @@ "NE" :> "e4" @@ "SE" :> "e2" @@ "NW" :> "x1" @@ "SW" :> "c2" @@ "idl" :> "x1" @@ "idr" :> "e4" @@ "odl" :> "e2" @@ "odr" :> "c2")
  @@ "d4" :> ("N" :> "d4'" @@ "S" :> "d3" @@ "in" :> "d4'" @@ "out" :> "d3" @@ "cw" :> "x1" @@ "ccw" :> "e4" @@ "NE" :> "e4'" @@ "SE" :> "e3" @@ "NW" :> "x1'" @@ "SW" :> "c3" @@ "idl" :> "x1'" @@ "idr" :> "e4'" @@ "odl" :> "e3" @@ "odr" :> "c3")
  @@ "d5" :> ("N" :> "d6" @@ "S" :> "d5'" @@ "in" :> "d5'" @@ "out" :> "d6" @@ "cw" :> "e5" @@ "ccw" :> "x4" @@ "NE" :> "e6" @@ "SE" :> "e5'" @@ "NW" :> "c6" @@ "SW" :> "x4'" @@ "idl" :> "e5'" @@ "idr" :> "x4'" @@ "odl" :> "c6" @@ "odr" :> "e6")
  @@ "d6" :> ("N" :> "d7" @@ "E" :> "e6" @@ "S" :> "d5" @@ "W" :> "c6" @@ "in" :> "d5" @@ "out" :> "d7" @@ "cw" :> "e6" @@ "ccw" :> "c6" @@ "NE" :> "e7" @@ "SE" :> "e5" @@ "NW" :> "c7" @@ "SW" :> "x4" @@ "idl" :> "e5" @@ "idr" :> "x4" @@ "odl" :> "c7" @@ "odr" :> "e7")
  @@ "d7" :> ("N" :> "d8" @@ "E" :> "e7" @@ "S" :> "d6" @@ "W" :> "c7" @@ "NE" :> "e8" @@ "SE" :> "e6" @@ "NW" :> "c8" @@ "SW" :> "c6")
  @@ "d8" :> ("N" :> null @@ "E" :> "e8" @@ "S" :> "d7" @@ "W" :> "c8" @@ "SW" :> "c7" @@ "SE" :> "e7")
  @@ "e1" :> ("N" :> "e2" @@ "E" :> "f1" @@ "S" :> null @@ "W" :> "d1" @@ "NE" :> "f2" @@ "NW" :> "d2")
  @@ "e2" :> ("N" :> "e3" @@ "E" :> "f2" @@ "S" :> "e1" @@ "W" :> "d2" @@ "NE" :> "f3" @@ "SE" :> "f1" @@ "NW" :> "d3" @@ "SW" :> "d1")
  @@ "e3" :> ("N" :> "e4" @@ "E" :> "f3" @@ "S" :> "e2" @@ "W" :> "d3" @@ "in" :> "e4" @@ "out" :> "e2" @@ "cw" :> "d3" @@ "ccw" :> "f3" @@ "NW" :> "d4" @@ "NE" :> "y1" @@ "SE" :> "f2" @@ "SW" :> "d2" @@ "idl" :> "d4" @@ "idr" :> "y1" @@ "odl" :> "f2" @@ "odr" :> "d2")
  @@ "e4" :> ("N" :> "e4'" @@ "S" :> "e3" @@ "in" :> "e4'" @@ "out" :> "e3" @@ "cw" :> "d4" @@ "ccw" :> "y1" @@ "NE" :> "y1'" @@ "NW" :> "d4'" @@ "SE" :> "f3" @@ "SW" :> "d3" @@ "idl" :> "d4'" @@ "idr" :> "y1'" @@ "odl" :> "f3" @@ "odr" :> "d3")
  @@ "e5" :> ("N" :> "e6" @@ "S" :> "e5'" @@ "in" :> "e5'" @@ "out" :> "e6" @@ "cw" :> "y4" @@ "ccw" :> "d5" @@ "NE" :> "f6" @@ "SE" :> "y4'" @@ "NW" :> "d6" @@ "SW" :> "d5'" @@ "idl" :> "y4'" @@ "idr" :> "d5'" @@ "odl" :> "d6" @@ "odr" :> "f6")
  @@ "e6" :> ("N" :> "e7" @@ "E" :> "f6" @@ "S" :> "e5" @@ "W" :> "d6" @@ "in" :> "e5" @@ "out" :> "e7" @@ "cw" :> "f6" @@ "ccw" :> "d6" @@ "NE" :> "f7" @@ "SE" :> "y4" @@ "NW" :> "d7" @@ "SW" :> "d5" @@ "idl" :> "y4" @@ "idr" :> "d5" @@ "odl" :> "d7" @@ "odr" :> "f7")
  @@ "e7" :> ("N" :> "e8" @@ "E" :> "f7" @@ "S" :> "e6" @@ "W" :> "d7" @@ "NE" :> "f8" @@ "SE" :> "f6" @@ "NW" :> "d8" @@ "SW" :> "d6")
  @@ "e8" :> ("N" :> null @@ "E" :> "f8" @@ "S" :> "e7" @@ "W" :> "d8" @@ "SW" :> "d7" @@ "SE" :> "f7")
  @@ "y1" :> ("in" :> "y1'" @@ "out" :> "f3" @@ "cw" :> "e4" @@ "ccw" :> "y2" @@ "idl" :> "e4'" @@ "idr" :> "y2'" @@ "odl" :> "f4" @@ "odr" :> "e3")
  @@ "y2" :> ("in" :> "y2'" @@ "out" :> "f4" @@ "cw" :> "y1" @@ "ccw" :> "y3" @@ "idl" :> "y1'" @@ "idr" :> "y3'" @@ "odl" :> "f5" @@ "odr" :> "f3")
  @@ "y3" :> ("in" :> "y3'" @@ "out" :> "f5" @@ "cw" :> "y2" @@ "ccw" :> "y4" @@ "idl" :> "y2'" @@ "idr" :> "y4'" @@ "odl" :> "f6" @@ "odr" :> "f4")
  @@ "y4" :> ("in" :> "y4'" @@ "out" :> "f6" @@ "cw" :> "y3" @@ "ccw" :> "e5" @@ "idl" :> "y3'" @@ "idr" :> "e5'" @@ "odl" :> "e6" @@ "odr" :> "f5")
  @@ "f1" :> ("N" :> "f2" @@ "E" :> "g1" @@ "S" :> null @@ "W" :> "e1" @@ "NE" :> "g2" @@ "NW" :> "e2")
  @@ "f2" :> ("N" :> "f3" @@ "E" :> "g2" @@ "S" :> "f1" @@ "W" :> "e2" @@ "NE" :> "g3" @@ "SE" :> "g1" @@ "NW" :> "e3" @@ "SW" :> "e1")
  @@ "f3" :> ("N" :> "f4" @@ "E" :> "g3" @@ "S" :> "f2" @@ "W" :> "e3" @@ "in" :> "y1" @@ "cw" :> "e3" @@ "ccw" :> "f4" @@ "NE" :> "g4" @@ "SE" :> "g2" @@ "SW" :> "e2" @@ "idl" :> "e4" @@ "idr" :> "y2" @@ "odl" :> "g4" @@ "od" :> "g2" @@ "odr" :> "e2")
  @@ "f4" :> ("N" :> "f5" @@ "S" :> "f3" @@ "E" :> "g4" @@ "W" :> "y2" @@ "in" :> "y2" @@ "out" :> "g4" @@ "cw" :> "f3" @@ "ccw" :> "f5" @@ "NE" :> "g5" @@ "SE" :> "g3" @@ "SW" :> "y1" @@ "NW" :> "y3" @@ "idl" :> "y1" @@ "idr" :> "y3" @@ "odl" :> "g5" @@ "odr" :> "g3")
  @@ "f5" :> ("N" :> "f6" @@ "S" :> "f4" @@ "E" :> "g5" @@ "W" :> "y3" @@ "in" :> "y3" @@ "out" :> "g5" @@ "cw" :> "f4" @@ "ccw" :> "f6" @@ "NE" :> "g6" @@ "SE" :> "g4" @@ "SW" :> "y2" @@ "NW" :> "y4" @@ "idl" :> "y2" @@ "idr" :> "y4" @@ "odl" :> "g6" @@ "odr" :> "g4")
  @@ "f6" :> ("N" :> "f7" @@ "E" :> "g6" @@ "S" :> "f5" @@ "W" :> "e6" @@ "in" :> "y4" @@ "cw" :> "f5" @@ "ccw" :> "e6" @@ "NE" :> "g7" @@ "SE" :> "g5" @@ "SW" :> "y3" @@ "idl" :> "y3" @@ "idr" :> "e5" @@ "odl" :> "e7" @@ "od" :> "g7" @@ "odr" :> "g5")
  @@ "f7" :> ("N" :> "f8" @@ "E" :> "g7" @@ "S" :> "f6" @@ "W" :> "e7" @@ "NE" :> "g8" @@ "SE" :> "g6" @@ "NW" :> "e8" @@ "SW" :> "e6")
  @@ "f8" :> ("N" :> null @@ "E" :> "g8" @@ "S" :> "f7" @@ "W" :> "e8" @@ "SW" :> "e7" @@ "SE" :> "g7")
  @@ "g1" :> ("N" :> "g2" @@ "E" :> "h1" @@ "S" :> null @@ "W" :> "f1" @@ "NE" :> "h2" @@ "NW" :> "f2")
  @@ "g2" :> ("N" :> "g3" @@ "E" :> "h2" @@ "S" :> "g1" @@ "W" :> "f2" @@ "NE" :> "h3" @@ "SE" :> "h1" @@ "NW" :> "f3" @@ "SW" :> "f1")
  @@ "g3" :> ("N" :> "g4" @@ "E" :> "h3" @@ "S" :> "g2" @@ "W" :> "f3" @@ "NE" :> "h4" @@ "SE" :> "h2" @@ "NW" :> "f4" @@ "SW" :> "f2")
  @@ "g4" :> ("N" :> "g5" @@ "E" :> "h4" @@ "S" :> "g3" @@ "W" :> "f4" @@ "NE" :> "h5" @@ "SE" :> "h3" @@ "NW" :> "f5" @@ "SW" :> "f3")
  @@ "g5" :> ("N" :> "g6" @@ "E" :> "h5" @@ "S" :> "g4" @@ "W" :> "f5" @@ "NE" :> "h6" @@ "SE" :> "h4" @@ "NW" :> "f6" @@ "SW" :> "f4")
  @@ "g6" :> ("N" :> "g7" @@ "E" :> "h6" @@ "S" :> "g5" @@ "W" :> "f6" @@ "NE" :> "h7" @@ "SE" :> "h5" @@ "NW" :> "f7" @@ "SW" :> "f5")
  @@ "g7" :> ("N" :> "g8" @@ "E" :> "h7" @@ "S" :> "g6" @@ "W" :> "f7" @@ "NE" :> "h8" @@ "SE" :> "h6" @@ "NW" :> "f8" @@ "SW" :> "f6")
  @@ "g8" :> ("N" :> null @@ "E" :> "h8" @@ "S" :> "g7" @@ "W" :> "f8" @@ "SW" :> "f7" @@ "SE" :> "h7")
  @@ "h1" :> ("N" :> "h2" @@ "E" :> null @@ "S" :> null @@ "W" :> "g1" @@ "NE" :> null @@ "NW" :> "g2")
  @@ "h2" :> ("N" :> "h3" @@ "E" :> null @@ "S" :> "h1" @@ "W" :> "g2" @@ "NE" :> null @@ "SE" :> "h1" @@ "NW" :> "g3" @@ "SW" :> "g1")
  @@ "h3" :> ("N" :> "h4" @@ "E" :> null @@ "S" :> "h2" @@ "W" :> "g3" @@ "NE" :> null @@ "SE" :> "h2" @@ "NW" :> "g4" @@ "SW" :> "g2")
  @@ "h4" :> ("N" :> "h5" @@ "E" :> null @@ "S" :> "h3" @@ "W" :> "g4" @@ "NE" :> null @@ "SE" :> "h3" @@ "NW" :> "g5" @@ "SW" :> "g3")
  @@ "h5" :> ("N" :> "h6" @@ "E" :> null @@ "S" :> "h4" @@ "W" :> "g5" @@ "NE" :> null @@ "SE" :> "h4" @@ "NW" :> "g6" @@ "SW" :> "g4")
  @@ "h6" :> ("N" :> "h7" @@ "E" :> null @@ "S" :> "h5" @@ "W" :> "g6" @@ "NE" :> null @@ "SE" :> "h5" @@ "NW" :> "g7" @@ "SW" :> "g5")
  @@ "h7" :> ("N" :> "h8" @@ "E" :> null @@ "S" :> "h6" @@ "W" :> "g7" @@ "NE" :> null @@ "SE" :> "h6" @@ "NW" :> "g8" @@ "SW" :> "g6")
  @@ "h8" :> ("N" :> null @@ "E" :> null @@ "S" :> "h7" @@ "W" :> "g8" @@ "SW" :> "g7" @@ "SE" :> null)
  @@ "a1'" :> ("N" :> "a2'" @@ "E" :> "b1'" @@ "S" :> null @@ "W" :> null @@ "NE" :> "b2'")
  @@ "a2'" :> ("N" :> "a3'" @@ "E" :> "b2'" @@ "S" :> "a1'" @@ "W" :> null @@ "NE" :> "b3'" @@ "SE" :> "b1'")
  @@ "a3'" :> ("N" :> "a4'" @@ "E" :> "b3'" @@ "S" :> "a2'" @@ "W" :> null @@ "NE" :> "b4'" @@ "SE" :> "b2'")
  @@ "a4'" :> ("N" :> "a5'" @@ "E" :> "b4'" @@ "S" :> "a3'" @@ "W" :> null @@ "NE" :> "b5'" @@ "SE" :> "b3'")
  @@ "a5'" :> ("N" :> "a6'" @@ "E" :> "b5'" @@ "S" :> "a4'" @@ "W" :> null @@ "NE" :> "b6'" @@ "SE" :> "b4'")
  @@ "a6'" :> ("N" :> "a7'" @@ "E" :> "b6'" @@ "S" :> "a5'" @@ "W" :> null @@ "NE" :> "b7'" @@ "SE" :> "b5'")
  @@ "a7'" :> ("N" :> "a8'" @@ "E" :> "b7'" @@ "S" :> "a6'" @@ "W" :> null @@ "NE" :> "b8'" @@ "SE" :> "b6'")
  @@ "a8'" :> ("N" :> null @@ "E" :> "b8'" @@ "S" :> "a7'" @@ "W" :> null @@ "SE" :> "b7'")
  @@ "b1'" :> ("N" :> "b2'" @@ "E" :> "c1'" @@ "S" :> null @@ "W" :> "a1'" @@ "NE" :> "c2'" @@ "NW" :> "a2'")
  @@ "b2'" :> ("N" :> "b3'" @@ "E" :> "c2'" @@ "S" :> "b1'" @@ "W" :> "a2'" @@ "NE" :> "c3'" @@ "SE" :> "c1'" @@ "NW" :> "a3'" @@ "SW" :> "a1'")
  @@ "b3'" :> ("N" :> "b4'" @@ "E" :> "c3'" @@ "S" :> "b2'" @@ "W" :> "a3'" @@ "NE" :> "c4'" @@ "SE" :> "c2'" @@ "NW" :> "a4'" @@ "SW" :> "a2'")
  @@ "b4'" :> ("N" :> "b5'" @@ "E" :> "c4'" @@ "S" :> "b3'" @@ "W" :> "a4'" @@ "NE" :> "c5'" @@ "SE" :> "c3'" @@ "NW" :> "a5'" @@ "SW" :> "a3'")
  @@ "b5'" :> ("N" :> "b6'" @@ "E" :> "c5'" @@ "S" :> "b4'" @@ "W" :> "a5'" @@ "NE" :> "c6'" @@ "SE" :> "c4'" @@ "NW" :> "a6'" @@ "SW" :> "a4'")
  @@ "b6'" :> ("N" :> "b7'" @@ "E" :> "c6'" @@ "S" :> "b5'" @@ "W" :> "a6'" @@ "NE" :> "c7'" @@ "SE" :> "c5'" @@ "NW" :> "a7'" @@ "SW" :> "a5'")
  @@ "b7'" :> ("N" :> "b8'" @@ "E" :> "c7'" @@ "S" :> "b6'" @@ "W" :> "a7'" @@ "NE" :> "c8'" @@ "SE" :> "c6'" @@ "NW" :> "a8'" @@ "SW" :> "a6'")
  @@ "b8'" :> ("N" :> null @@ "E" :> "c8'" @@ "S" :> "b7'" @@ "W" :> "a8'" @@ "SE" :> "c7'" @@ "NW" :> null @@ "SW" :> "a7'")
  @@ "c1'" :> ("N" :> "c2'" @@ "E" :> "d1'" @@ "S" :> null @@ "W" :> "b1'" @@ "NE" :> "d2'" @@ "NW" :> "b2'")
  @@ "c2'" :> ("N" :> "c3'" @@ "E" :> "d2'" @@ "S" :> "c1'" @@ "W" :> "b2'" @@ "NE" :> "d3'" @@ "SE" :> "d1'" @@ "NW" :> "b3'" @@ "SW" :> "b1'")
  @@ "c3'" :> ("N" :> "c4'" @@ "E" :> "d3'" @@ "S" :> "c2'" @@ "W" :> "b3'" @@ "in" :> "x1'" @@ "cw" :> "c4'" @@ "ccw" :> "d3'" @@ "NW" :> "b4'" @@ "SW" :> "b2'" @@ "SE" :> "d2'" @@ "idl" :> "d4'" @@ "idr" :> "x2'" @@ "odl" :> "b4'" @@ "od" :> "b2'" @@ "odr" :> "d2'")
  @@ "c4'" :> ("N" :> "c5'" @@ "E" :> "x2'" @@ "S" :> "c3'" @@ "W" :> "b4'" @@ "in" :> "x2'" @@ "cw" :> "c5'" @@ "ccw" :> "c3'" @@ "NW" :> "b5'" @@ "SW" :> "b3'" @@ "NE" :> "x3'" @@ "SE" :> "x1'" @@ "idl" :> "x1'" @@ "idr" :> "x3'" @@ "odl" :> "b5'" @@ "odr" :> "b3'")
  @@ "c5'" :> ("N" :> "c6'" @@ "E" :> "x3'" @@ "S" :> "c4'" @@ "W" :> "b5'" @@ "in" :> "x3'" @@ "cw" :> "c6'" @@ "ccw" :> "c4'" @@ "NW" :> "b6'" @@ "SW" :> "b4'" @@ "NE" :> "x4'" @@ "SE" :> "x2'" @@ "idl" :> "x2'" @@ "idr" :> "x4'" @@ "odl" :> "b6'" @@ "odr" :> "b4'")
  @@ "c6'" :> ("N" :> "c7'" @@ "E" :> "d6'" @@ "S" :> "c5'" @@ "W" :> "b6'" @@ "in" :> "x4'" @@ "cw" :> "d6'" @@ "ccw" :> "c5'" @@ "NE" :> "d7'" @@ "SW" :> "b5'" @@ "NW" :> "b7'" @@ "idl" :> "x3'" @@ "idr" :> "d5'" @@ "odl" :> "d7'" @@ "od" :> "b7'" @@ "odr" :> "b5'")
  @@ "c7'" :> ("N" :> "c8'" @@ "E" :> "d7'" @@ "S" :> "c6'" @@ "W" :> "b7'" @@ "NE" :> "d8'" @@ "NW" :> "b8'" @@ "SW" :> "b6'" @@ "SE" :> "d6'")
  @@ "c8'" :> ("N" :> null @@ "E" :> "d8'" @@ "S" :> "c7'" @@ "W" :> "b8'" @@ "SW" :> "b7'" @@ "SE" :> "d7'")
  @@ "x1'" :> ("out" :> "c3'" @@ "cw" :> "x2'" @@ "in" :> "x1" @@ "ccw" :> "d4'" @@ "idl" :> "d4" @@ "idr" :> "x2" @@ "odl" :> "c4'" @@ "odr" :> "d3'")
  @@ "x2'" :> ("out" :> "c4'" @@ "cw" :> "x3'" @@ "in" :> "x2" @@ "ccw" :> "x1'" @@ "idl" :> "x1" @@ "idr" :> "x3" @@ "odl" :> "c5'" @@ "odr" :> "c3'")
  @@ "x3'" :> ("out" :> "c5'" @@ "cw" :> "x4'" @@ "in" :> "x3" @@ "ccw" :> "x2'" @@ "idl" :> "x2" @@ "idr" :> "x4" @@ "odl" :> "c6'" @@ "odr" :> "c4'")
  @@ "x4'" :> ("out" :> "c6'" @@ "cw" :> "d5'" @@ "in" :> "x4" @@ "ccw" :> "x3'" @@ "idl" :> "x3" @@ "idr" :> "d5" @@ "odl" :> "d5'" @@ "odr" :> "c5'")
  @@ "d1'" :> ("N" :> "d2'" @@ "E" :> "e1'" @@ "S" :> null @@ "W" :> "c1'" @@ "NE" :> "e2'" @@ "NW" :> "c2'")
  @@ "d2'" :> ("N" :> "d3'" @@ "E" :> "e2'" @@ "S" :> "d1'" @@ "W" :> "c2'" @@ "NE" :> "e3'" @@ "SE" :> "e1'" @@ "NW" :> "c3'" @@ "SW" :> "c1'")
  @@ "d3'" :> ("N" :> "d4'" @@ "E" :> "e3'" @@ "S" :> "d2'" @@ "W" :> "c3'" @@ "in" :> "d4'" @@ "out" :> "d2'" @@ "cw" :> "c3'" @@ "ccw" :> "e3'" @@ "NE" :> "e4'" @@ "SE" :> "e2'" @@ "NW" :> "x1'" @@ "SW" :> "c2'" @@ "idl" :> "e4'" @@ "idr" :> "x1'" @@ "odl" :> "c2'" @@ "odr" :> "e2'")
  @@ "d4'" :> ("N" :> "d4" @@ "S" :> "d3'" @@ "in" :> "d4" @@ "out" :> "d3'" @@ "cw" :> "x1'" @@ "ccw" :> "e4'" @@ "NE" :> "e5" @@ "SE" :> "e3" @@ "NW" :> "x1" @@ "SW" :> "c3'" @@ "idl" :> "e5" @@ "idr" :> "x1" @@ "odl" :> "c3'" @@ "odr" :> "e3'")
  @@ "d5'" :> ("N" :> "d6'" @@ "S" :> "d5" @@ "in" :> "d5" @@ "out" :> "d6'" @@ "cw" :> "e5'" @@ "ccw" :> "x4'" @@ "NE" :> "e6'" @@ "SE" :> "e5" @@ "NW" :> "c6'" @@ "SW" :> "x4" @@ "idl" :> "x4" @@ "idr" :> "e5" @@ "odl" :> "e6'" @@ "odr" :> "c6'")
  @@ "d6'" :> ("N" :> "d7'" @@ "E" :> "e6'" @@ "S" :> "d5'" @@ "W" :> "c6'" @@ "in" :> "d5'" @@ "out" :> "d7'" @@ "cw" :> "e6'" @@ "ccw" :> "c6'" @@ "NE" :> "e7'" @@ "SE" :> "e5'" @@ "NW" :> "c7'" @@ "SW" :> "x4'" @@ "idl" :> "x4'" @@ "idr" :> "e5'" @@ "odl" :> "e7'" @@ "odr" :> "c7'")
  @@ "d7'" :> ("N" :> "d8'" @@ "E" :> "e7'" @@ "S" :> "d6'" @@ "W" :> "c7'" @@ "NE" :> "e8'" @@ "SE" :> "e6'" @@ "NW" :> "c8'" @@ "SW" :> "c6'")
  @@ "d8'" :> ("N" :> null @@ "E" :> "e8'" @@ "S" :> "d7'" @@ "W" :> "c8'" @@ "SW" :> "c7'" @@ "SE" :> "e7'")
  @@ "e1'" :> ("N" :> "e2'" @@ "E" :> "f1'" @@ "S" :> null @@ "W" :> "d1'" @@ "NE" :> "f2'" @@ "NW" :> "d2'")
  @@ "e2'" :> ("N" :> "e3'" @@ "E" :> "f2'" @@ "S" :> "e1'" @@ "W" :> "d2'" @@ "NE" :> "f3'" @@ "SE" :> "f1'" @@ "NW" :> "d3'" @@ "SW" :> "d1'")
  @@ "e3'" :> ("N" :> "e4'" @@ "E" :> "f3'" @@ "S" :> "e2'" @@ "W" :> "d3'" @@ "in" :> "e4'" @@ "out" :> "e2'" @@ "cw" :> "d3'" @@ "ccw" :> "f3'" @@ "NE" :> "y1'" @@ "SE" :> "f2'" @@ "NW" :> "d4'" @@ "SW" :> "d2'" @@ "idl" :> "y1'" @@ "idr" :> "d4'" @@ "odl" :> "d2'" @@ "odr" :> "f2'")
  @@ "e4'" :> ("N" :> "e4" @@ "S" :> "e3'" @@ "in" :> "e4" @@ "out" :> "e3'" @@ "cw" :> "d4'" @@ "ccw" :> "y1'" @@ "NE" :> "y1" @@ "NW" :> "d4" @@ "SE" :> "f3'" @@ "SW" :> "d3'" @@ "idl" :> "y1" @@ "idr" :> "d4" @@ "odl" :> "d3'" @@ "odr" :> "f3'")
  @@ "e5'" :> ("N" :> "e6'" @@ "S" :> "e5" @@ "in" :> "e5" @@ "out" :> "e6'" @@ "cw" :> "y4'" @@ "ccw" :> "d5'" @@ "NE" :> "f6'" @@ "SE" :> "y4" @@ "NW" :> "d6'" @@ "SW" :> "d5" @@ "idl" :> "d5" @@ "idr" :> "y4" @@ "odl" :> "f6'" @@ "odr" :> "d6'")
  @@ "e6'" :> ("N" :> "e7'" @@ "E" :> "f6'" @@ "S" :> "e5'" @@ "W" :> "d6'" @@ "in" :> "e5'" @@ "out" :> "e7'" @@ "cw" :> "f6'" @@ "ccw" :> "d6'" @@ "NE" :> "f7'" @@ "SE" :> "y4'" @@ "NW" :> "d7'" @@ "SW" :> "d5'" @@ "idl" :> "d5'" @@ "idr" :> "y4'" @@ "odl" :> "f7'" @@ "odr" :> "d7'")
  @@ "e7'" :> ("N" :> "e8'" @@ "E" :> "f7'" @@ "S" :> "e6'" @@ "W" :> "d7'" @@ "NE" :> "f8'" @@ "SE" :> "f6'" @@ "NW" :> "d8'" @@ "SW" :> "d6'")
  @@ "e8'" :> ("N" :> null @@ "E" :> "f8'" @@ "S" :> "e7'" @@ "W" :> "d8'" @@ "SW" :> "d7'" @@ "SE" :> "f7'")
  @@ "y1'" :> ("in" :> "y1" @@ "out" :> "f3'" @@ "cw" :> "e4'" @@ "ccw" :> "y2'" @@ "idl" :> "y2" @@ "idr" :> "e4" @@ "odl" :> "e3'" @@ "odr" :> "f4'")
  @@ "y2'" :> ("in" :> "y2" @@ "out" :> "f4'" @@ "cw" :> "y1'" @@ "ccw" :> "y3'" @@ "idl" :> "y3" @@ "idr" :> "y1" @@ "odl" :> "f3'" @@ "odr" :> "f5'")
  @@ "y3'" :> ("in" :> "y3" @@ "out" :> "f5'" @@ "cw" :> "y2'" @@ "ccw" :> "y4'" @@ "idl" :> "y4" @@ "idr" :> "y2" @@ "odl" :> "f4'" @@ "odr" :> "f6'")
  @@ "y4'" :> ("in" :> "y4" @@ "out" :> "f6'" @@ "cw" :> "y3'" @@ "ccw" :> "e5'" @@ "idl" :> "e5" @@ "idr" :> "y3" @@ "odl" :> "f5'" @@ "odr" :> "e6'")
  @@ "f1'" :> ("N" :> "f2'" @@ "E" :> "g1'" @@ "S" :> null @@ "W" :> "e1'" @@ "NE" :> "g2'" @@ "NW" :> "e2'")
  @@ "f2'" :> ("N" :> "f3'" @@ "E" :> "g2'" @@ "S" :> "f1'" @@ "W" :> "e2'" @@ "NE" :> "g3'" @@ "SE" :> "g1'" @@ "NW" :> "e3'" @@ "SW" :> "e1'")
  @@ "f3'" :> ("N" :> "f4'" @@ "E" :> "g3'" @@ "S" :> "f2'" @@ "W" :> "e3'" @@ "in" :> "y1'" @@ "cw" :> "e3'" @@ "ccw" :> "f4'" @@ "NE" :> "g4'" @@ "SE" :> "g2'" @@ "SW" :> "e2'" @@ "idl" :> "y2'" @@ "idr" :> "e4'" @@ "odl" :> "e2'" @@ "od" :> "g2'" @@ "odr" :> "g4'")
  @@ "f4'" :> ("N" :> "f5'" @@ "S" :> "f3'" @@ "E" :> "g4'" @@ "W" :> "y2'" @@ "in" :> "y2'" @@ "out" :> "g4'" @@ "cw" :> "f3'" @@ "ccw" :> "f5'" @@ "NE" :> "g5'" @@ "SE" :> "g3'" @@ "SW" :> "y1'" @@ "NW" :> "y3'" @@ "idl" :> "y3'" @@ "idr" :> "y1'" @@ "odl" :> "g3'" @@ "odr" :> "g5'")
  @@ "f5'" :> ("N" :> "f6'" @@ "S" :> "f4'" @@ "E" :> "g5'" @@ "W" :> "y3'" @@ "in" :> "y3'" @@ "out" :> "g5'" @@ "cw" :> "f4'" @@ "ccw" :> "f6'" @@ "NE" :> "g6'" @@ "SE" :> "g4'" @@ "SW" :> "y2'" @@ "NW" :> "y4'" @@ "idl" :> "y4'" @@ "idr" :> "y2'" @@ "odl" :> "g4'" @@ "odr" :> "g6'")
  @@ "f6'" :> ("N" :> "f7'" @@ "E" :> "g6'" @@ "S" :> "f5'" @@ "W" :> "e6'" @@ "in" :> "y4'" @@ "cw" :> "f5'" @@ "ccw" :> "e6'" @@ "NE" :> "g7'" @@ "SE" :> "g5'" @@ "NW" :> "e7'" @@ "idl" :> "e5'" @@ "idr" :> "y3'" @@ "odl" :> "g5'" @@ "od" :> "g7'" @@ "odr" :> "e7'")
  @@ "f7'" :> ("N" :> "f8'" @@ "E" :> "g7'" @@ "S" :> "f'6" @@ "W" :> "e7'" @@ "NE" :> "g8'" @@ "SE" :> "g6'" @@ "NW" :> "e8'" @@ "SW" :> "e6'")
  @@ "f8'" :> ("N" :> null @@ "E" :> "g8'" @@ "S" :> "f7'" @@ "W" :> "e8'" @@ "SW" :> "e7'" @@ "SE" :> "g7'")
  @@ "g1'" :> ("N" :> "g2'" @@ "E" :> "h1'" @@ "S" :> null @@ "W" :> "f1'" @@ "NE" :> "h2'" @@ "NW" :> "f2'")
  @@ "g2'" :> ("N" :> "g3'" @@ "E" :> "h2'" @@ "S" :> "g1'" @@ "W" :> "f2'" @@ "NE" :> "h3'" @@ "SE" :> "h1'" @@ "NW" :> "f3'" @@ "SW" :> "f1'")
  @@ "g3'" :> ("N" :> "g4'" @@ "E" :> "h3'" @@ "S" :> "g2'" @@ "W" :> "f3'" @@ "NE" :> "h4'" @@ "SE" :> "h2'" @@ "NW" :> "f4'" @@ "SW" :> "f2'")
  @@ "g4'" :> ("N" :> "g5'" @@ "E" :> "h4'" @@ "S" :> "g3'" @@ "W" :> "f4'" @@ "NE" :> "h5'" @@ "SE" :> "h3'" @@ "NW" :> "f5'" @@ "SW" :> "f3'")
  @@ "g5'" :> ("N" :> "g6'" @@ "E" :> "h5'" @@ "S" :> "g4'" @@ "W" :> "f5'" @@ "NE" :> "h6'" @@ "SE" :> "h4'" @@ "NW" :> "f6'" @@ "SW" :> "f4'")
  @@ "g6'" :> ("N" :> "g7'" @@ "E" :> "h6'" @@ "S" :> "g5'" @@ "W" :> "f6'" @@ "NE" :> "h7'" @@ "SE" :> "h5'" @@ "NW" :> "f7'" @@ "SW" :> "f5'")
  @@ "g7'" :> ("N" :> "g8'" @@ "E" :> "h7'" @@ "S" :> "g6'" @@ "W" :> "f7'" @@ "NE" :> "h8'" @@ "SE" :> "h6'" @@ "NW" :> "f8'" @@ "SW" :> "f6'")
  @@ "g8'" :> ("N" :> null @@ "E" :> "h8'" @@ "S" :> "g7'" @@ "W" :> "f8'" @@ "SW" :> "f7'" @@ "SE" :> "h7'")
  @@ "h1'" :> ("N" :> "h2'" @@ "E" :> null @@ "S" :> null @@ "W" :> "g1'" @@ "NE" :> null @@ "NW" :> "g2'")
  @@ "h2'" :> ("N" :> "h3'" @@ "E" :> null @@ "S" :> "h1'" @@ "W" :> "g2'" @@ "NE" :> null @@ "SE" :> "h1'" @@ "NW" :> "g3'" @@ "SW" :> "g1'")
  @@ "h3'" :> ("N" :> "h4'" @@ "E" :> null @@ "S" :> "h2'" @@ "W" :> "g3'" @@ "NE" :> null @@ "SE" :> "h2'" @@ "NW" :> "g4'" @@ "SW" :> "g2'")
  @@ "h4'" :> ("N" :> "h5'" @@ "E" :> null @@ "S" :> "h3'" @@ "W" :> "g4'" @@ "NE" :> null @@ "SE" :> "h3'" @@ "NW" :> "g5'" @@ "SW" :> "g3'")
  @@ "h5'" :> ("N" :> "h6'" @@ "E" :> null @@ "S" :> "h4'" @@ "W" :> "g5'" @@ "NE" :> null @@ "SE" :> "h4'" @@ "NW" :> "g6'" @@ "SW" :> "g4'")
  @@ "h6'" :> ("N" :> "h7'" @@ "E" :> null @@ "S" :> "h5'" @@ "W" :> "g6'" @@ "NE" :> null @@ "SE" :> "h5'" @@ "NW" :> "g7'" @@ "SW" :> "g5'")
  @@ "h7'" :> ("N" :> "h8'" @@ "E" :> null @@ "S" :> "h6'" @@ "W" :> "g7'" @@ "NE" :> null @@ "SE" :> "h6'" @@ "NW" :> "g8'" @@ "SW" :> "g6'")
  @@ "h8'" :> ("N" :> null @@ "E" :> null @@ "S" :> "h7'" @@ "W" :> "g8'" @@ "SW" :> "g7'" @@ "SE" :> null)

\* The character sequence of every square string that can occur: the keys
\* of boardGraph and the edge target "f'6" (the S edge of f7'), which is no key.
SquareChars ==
  "a1" :> <<"a", "1">>
  @@ "a2" :> <<"a", "2">>
  @@ "a3" :> <<"a", "3">>
  @@ "a4" :> <<"a", "4">>
  @@ "a5" :> <<"a", "5">>
  @@ "a6" :> <<"a", "6">>
  @@ "a7" :> <<"a", "7">>
  @@ "a8" :> <<"a", "8">>
  @@ "b1" :> <<"b", "1">>
  @@ "b2" :> <<"b", "2">>
  @@ "b3" :> <<"b", "3">>
  @@ "b4" :> <<"b", "4">>
  @@ "b5" :> <<"b", "5">>
  @@ "b6" :> <<"b", "6">>
  @@ "b7" :> <<"b", "7">>
  @@ "b8" :> <<"b", "8">>
  @@ "c1" :> <<"c", "1">>
  @@ "c2" :> <<"c", "2">>
  @@ "c3" :> <<"c", "3">>
  @@ "c4" :> <<"c", "4">>
  @@ "c5" :> <<"c", "5">>
  @@ "c6" :> <<"c", "6">>
  @@ "c7" :> <<"c", "7">>
  @@ "c8" :> <<"c", "8">>
  @@ "x1" :> <<"x", "1">>
  @@ "x2" :> <<"x", "2">>
  @@ "x3" :> <<"x", "3">>
  @@ "x4" :> <<"x", "4">>
  @@ "d1" :> <<"d", "1">>
  @@ "d2" :> <<"d", "2">>
  @@ "d3" :> <<"d", "3">>
  @@ "d4" :> <<"d", "4">>
  @@ "d5" :> <<"d", "5">>
  @@ "d6" :> <<"d", "6">>
  @@ "d7" :> <<"d", "7">>
  @@ "d8" :> <<"d", "8">>
  @@ "e1" :> <<"e", "1">>
  @@ "e2" :> <<"e", "2">>
  @@ "e3" :> <<"e", "3">>
  @@ "e4" :> <<"e", "4">>
  @@ "e5" :> <<"e", "5">>
  @@ "e6" :> <<"e", "6">>
  @@ "e7" :> <<"e", "7">>
  @@ "e8" :> <<"e", "8">>
  @@ "y1" :> <<"y", "1">>
  @@ "y2" :> <<"y", "2">>
  @@ "y3" :> <<"y", "3">>
  @@ "y4" :> <<"y", "4">>
  @@ "f1" :> <<"f", "1">>
  @@ "f2" :> <<"f", "2">>
  @@ "f3" :> <<"f", "3">>
  @@ "f4" :> <<"f", "4">>
  @@ "f5" :> <<"f", "5">>
  @@ "f6" :> <<"f", "6">>
  @@ "f7" :> <<"f", "7">>
  @@ "f8" :> <<"f", "8">>
  @@ "g1" :> <<"g", "1">>
  @@ "g2" :> <<"g", "2">>
  @@ "g3" :> <<"g", "3">>
  @@ "g4" :> <<"g", "4">>
  @@ "g5" :> <<"g", "5">>
  @@ "g6" :> <<"g", "6">>
  @@ "g7" :> <<"g", "7">>
  @@ "g8" :> <<"g", "8">>
  @@ "h1" :> <<"h", "1">>
  @@ "h2" :> <<"h", "2">>
  @@ "h3" :> <<"h", "3">>
  @@ "h4" :> <<"h", "4">>
  @@ "h5" :> <<"h", "5">>
  @@ "h6" :> <<"h", "6">>
  @@ "h7" :> <<"h", "7">>
  @@ "h8" :> <<"h", "8">>
  @@ "a1'" :> <<"a", "1", "'">>
  @@ "a2'" :> <<"a", "2", "'">>
  @@ "a3'" :> <<"a", "3", "'">>
  @@ "a4'" :> <<"a", "4", "'">>
  @@ "a5'" :> <<"a", "5", "'">>
  @@ "a6'" :> <<"a", "6", "'">>
  @@ "a7'" :> <<"a", "7", "'">>
  @@ "a8'" :> <<"a", "8", "'">>
  @@ "b1'" :> <<"b", "1", "'">>
  @@ "b2'" :> <<"b", "2", "'">>
  @@ "b3'" :> <<"b", "3", "'">>
  @@ "b4'" :> <<"b", "4", "'">>
  @@ "b5'" :> <<"b", "5", "'">>
  @@ "b6'" :> <<"b", "6", "'">>
  @@ "b7'" :> <<"b", "7", "'">>
  @@ "b8'" :> <<"b", "8", "'">>
  @@ "c1'" :> <<"c", "1", "'">>
  @@ "c2'" :> <<"c", "2", "'">>
  @@ "c3'" :> <<"c", "3", "'">>
  @@ "c4'" :> <<"c", "4", "'">>
  @@ "c5'" :> <<"c", "5", "'">>
  @@ "c6'" :> <<"c", "6", "'">>
  @@ "c7'" :> <<"c", "7", "'">>
  @@ "c8'" :> <<"c", "8", "'">>
  @@ "x1'" :> <<"x", "1", "'">>
  @@ "x2'" :> <<"x", "2", "'">>
  @@ "x3'" :> <<"x", "3", "'">>
  @@ "x4'" :> <<"x", "4", "'">>
  @@ "d1'" :> <<"d", "1", "'">>
  @@ "d2'" :> <<"d", "2", "'">>
  @@ "d3'" :> <<"d", "3", "'">>
  @@ "d4'" :> <<"d", "4", "'">>
  @@ "d5'" :> <<"d", "5", "'">>
  @@ "d6'" :> <<"d", "6", "'">>
  @@ "d7'" :> <<"d", "7", "'">>
  @@ "d8'" :> <<"d", "8", "'">>
  @@ "e1'" :> <<"e", "1", "'">>
  @@ "e2'" :> <<"e", "2", "'">>
  @@ "e3'" :> <<"e", "3", "'">>
  @@ "e4'" :> <<"e", "4", "'">>
  @@ "e5'" :> <<"e", "5", "'">>
  @@ "e6'" :> <<"e", "6", "'">>
  @@ "e7'" :> <<"e", "7", "'">>
  @@ "e8'" :> <<"e", "8", "'">>
  @@ "y1'" :> <<"y", "1", "'">>
  @@ "y2'" :> <<"y", "2", "'">>
  @@ "y3'" :> <<"y", "3", "'">>
  @@ "y4'" :> <<"y", "4", "'">>
  @@ "f1'" :> <<"f", "1", "'">>
  @@ "f2'" :> <<"f", "2", "'">>
  @@ "f3'" :> <<"f", "3", "'">>
  @@ "f4'" :> <<"f", "4", "'">>
  @@ "f5'" :> <<"f", "5", "'">>
  @@ "f6'" :> <<"f", "6", "'">>
  @@ "f7'" :> <<"f", "7", "'">>
  @@ "f8'" :> <<"f", "8", "'">>
  @@ "g1'" :> <<"g", "1", "'">>
  @@ "g2'" :> <<"g", "2", "'">>
  @@ "g3'" :> <<"g", "3", "'">>
  @@ "g4'" :> <<"g", "4", "'">>
  @@ "g5'" :> <<"g", "5", "'">>
  @@ "g6'" :> <<"g", "6", "'">>
  @@ "g7'" :> <<"g", "7", "'">>
  @@ "g8'" :> <<"g", "8", "'">>
  @@ "h1'" :> <<"h", "1", "'">>
  @@ "h2'" :> <<"h", "2", "'">>
  @@ "h3'" :> <<"h", "3", "'">>
  @@ "h4'" :> <<"h", "4", "'">>
  @@ "h5'" :> <<"h", "5", "'">>
  @@ "h6'" :> <<"h", "6", "'">>
  @@ "h7'" :> <<"h", "7", "'">>
  @@ "h8'" :> <<"h", "8", "'">>
  @@ "f'6" :> <<"f", "'", "6">>

hasNode(square) == square \in DOMAIN boardGraph

\* node[dir] of the source: the edge of `square` in direction `dir`, null
\* when the key is absent or null.
edgeOf(node, dir) == IF dir \in DOMAIN node THEN node[dir] ELSE null

edgeIn(graph, square, dir) ==
  IF square \in DOMAIN graph THEN edgeOf(graph[square], dir) ELSE null

edge(square, dir) == edgeIn(boardGraph, square, dir)

\* notation[i] (0-based as in the source); null when out of range.
charAt(notation, i) ==
  IF i + 1 \in DOMAIN SquareChars[notation] THEN SquareChars[notation][i + 1] ELSE null

endsWithPrime(notation) ==
  SquareChars[notation][Len(SquareChars[notation])] = "'"

includesPrime(notation) ==
  \E i \in DOMAIN SquareChars[notation] : SquareChars[notation][i] = "'"

\* charCodeAt(0) of a square string.
charCode ==
  "a" :> 97 @@ "b" :> 98 @@ "c" :> 99 @@ "d" :> 100 @@ "e" :> 101 @@ "f" :> 102
  @@ "g" :> 103 @@ "h" :> 104 @@ "x" :> 120 @@ "y" :> 121

\* parseInt of one character; NaN for a non-digit.
NaN == "NaN"

parseInt(c) ==
  CASE c = "1" -> 1 [] c = "2" -> 2 [] c = "3" -> 3 [] c = "4" -> 4
    [] c = "5" -> 5 [] c = "6" -> 6 [] c = "7" -> 7 [] c = "8" -> 8
    [] OTHER -> NaN

Abs(n) == IF n < 0 THEN -n ELSE n

\* The mirrored form of a table keyed by squares: key k and key k' share the row.
Primed(square) ==
  CHOOSE s \in DOMAIN SquareChars : SquareChars[s] = Append(SquareChars[square], "'")

(***************************************************************************)
(* Pentagon branch tables and direction remap tables.                      *)
(***************************************************************************)
pentagonOrthogonalExits ==
  "c3" :> ("N" :> <<"N", "cw", "in">> @@ "E" :> <<"E", "ccw", "in">> @@ "S" :> <<"S", "ccw">>
           @@ "W" :> <<"W", "cw">> @@ "cw" :> <<"cw", "W">> @@ "ccw" :> <<"ccw", "S">>
           @@ "out" :> <<"S", "W">>)
  @@ "c6" :> ("N" :> <<"N", "cw">> @@ "E" :> <<"E", "cw", "in">> @@ "S" :> <<"S", "ccw", "in">>
           @@ "W" :> <<"W", "ccw">> @@ "cw" :> <<"cw", "N">> @@ "ccw" :> <<"ccw", "W">>
           @@ "out" :> <<"N", "W">>)
  @@ "f3" :> ("N" :> <<"N", "ccw", "in">> @@ "E" :> <<"E", "ccw">> @@ "S" :> <<"S", "ccw">>
           @@ "W" :> <<"W", "cw", "in">> @@ "cw" :> <<"cw", "S">> @@ "ccw" :> <<"ccw", "E">>
           @@ "out" :> <<"S", "E">>)
  @@ "f6" :> ("N" :> <<"N", "ccw">> @@ "E" :> <<"E", "cw">> @@ "S" :> <<"S", "cw", "in">>
           @@ "W" :> <<"W", "ccw", "in">> @@ "cw" :> <<"cw", "E">> @@ "ccw" :> <<"ccw", "N">>
           @@ "out" :> <<"N", "E">>)
  @@ "c3'" :> ("N" :> <<"N", "cw", "in">> @@ "E" :> <<"E", "ccw", "in">> @@ "S" :> <<"S", "ccw">>
           @@ "W" :> <<"W", "cw">> @@ "cw" :> <<"cw", "W">> @@ "ccw" :> <<"ccw", "S">>
           @@ "out" :> <<"S", "W">>)
  @@ "c6'" :> ("N" :> <<"N", "cw">> @@ "E" :> <<"E", "cw", "in">> @@ "S" :> <<"S", "ccw", "in">>
           @@ "W" :> <<"W", "ccw">> @@ "cw" :> <<"cw", "N">> @@ "ccw" :> <<"ccw", "W">>
           @@ "out" :> <<"N", "W">>)
  @@ "f3'" :> ("N" :> <<"N", "ccw", "in">> @@ "E" :> <<"E", "ccw">> @@ "S" :> <<"S", "ccw">>
           @@ "W" :> <<"W", "cw", "in">> @@ "cw" :> <<"cw", "S">> @@ "ccw" :> <<"ccw", "E">>
           @@ "out" :> <<"S", "E">>)
  @@ "f6'" :> ("N" :> <<"N", "ccw">> @@ "E" :> <<"E", "cw">> @@ "S" :> <<"S", "cw", "in">>
           @@ "W" :> <<"W", "ccw", "in">> @@ "cw" :> <<"cw", "E">> @@ "ccw" :> <<"ccw", "N">>
           @@ "out" :> <<"N", "E">>)

pentagonDiagonalExits ==
  "c3" :> ("NE" :> <<"idl", "idr">> @@ "SE" :> <<"idr", "SE">> @@ "NW" :> <<"NW", "idl">>
           @@ "odl" :> <<"SE", "SW">> @@ "odr" :> <<"NW", "SW">>)
  @@ "c6" :> ("SE" :> <<"idl", "idr">> @@ "NE" :> <<"NE", "idl">> @@ "SW" :> <<"SW", "idr">>
           @@ "odl" :> <<"NW", "SW">> @@ "odr" :> <<"NE", "NW">>)
  @@ "f3" :> ("NW" :> <<"idl", "idr">> @@ "SW" :> <<"idl", "SW">> @@ "NE" :> <<"NE", "idr">>
           @@ "odl" :> <<"NE", "SE">> @@ "odr" :> <<"SW", "SE">>)
  @@ "f6" :> ("SW" :> <<"idl", "idr">> @@ "NW" :> <<"NW", "idr">> @@ "SE" :> <<"SE", "idl">>
           @@ "odl" :> <<"NE", "NW">> @@ "odr" :> <<"SE", "NE">>)
  @@ "c3'" :> ("NE" :> <<"idl", "idr">> @@ "SE" :> <<"idl", "SE">> @@ "NW" :> <<"NW", "idr">>
           @@ "odl" :> <<"NW", "SW">> @@ "odr" :> <<"SE", "SW">>)
  @@ "c6'" :> ("SE" :> <<"idl", "idr">> @@ "NE" :> <<"NE", "idr">> @@ "SW" :> <<"SW", "idl">>
           @@ "odl" :> <<"NW", "NE">> @@ "odr" :> <<"SW", "NW">>)
  @@ "f3'" :> ("NW" :> <<"idl", "idr">> @@ "SW" :> <<"idr", "SW">> @@ "NE" :> <<"NE", "idl">>
           @@ "odl" :> <<"SW", "SE">> @@ "odr" :> <<"NE", "SE">>)
  @@ "f6'" :> ("SW" :> <<"idl", "idr">> @@ "NW" :> <<"NW", "idl">> @@ "SE" :> <<"SE", "idr">>
           @@ "odl" :> <<"NE", "SE">> @@ "odr" :> <<"NW", "NE">>)

oppositeDir ==
  "N" :> "S" @@ "S" :> "N" @@ "E" :> "W" @@ "W" :> "E" @@ "in" :> "out" @@ "out" :> "in"
  @@ "cw" :> "ccw" @@ "ccw" :> "cw" @@ "NW" :> "SE" @@ "NE" :> "SW" @@ "SW" :> "NE"
  @@ "SE" :> "NW" @@ "idl" :> "odr" @@ "idr" :> "odl" @@ "odl" :> "idr" @@ "odr" :> "idl"
  @@ "od" :> "od"

\* outDir / inDir of calculateOrthogonalMoves (calculateKnightMoves repeats them).
outDir ==
  "c4" :> "W" @@ "c5" :> "W" @@ "d3" :> "S" @@ "e3" :> "S" @@ "d6" :> "N" @@ "e6" :> "N"
  @@ "f4" :> "E" @@ "f5" :> "E" @@ "c4'" :> "W" @@ "c5'" :> "W" @@ "d3'" :> "S"
  @@ "e3'" :> "S" @@ "d6'" :> "N" @@ "e6'" :> "N" @@ "f4'" :> "E" @@ "f5'" :> "E"

inDir ==
  "c4" :> "E" @@ "c5" :> "E" @@ "d3" :> "N" @@ "e3" :> "N" @@ "d6" :> "S" @@ "e6" :> "S"
  @@ "f4" :> "W" @@ "f5" :> "W" @@ "c4'" :> "E" @@ "c5'" :> "E" @@ "d3'" :> "N"
  @@ "e3'" :> "N" @@ "d6'" :> "S" @@ "e6'" :> "S" @@ "f4'" :> "W" @@ "f5'" :> "W"

\* inDir / outDir of calculateDiagonalMoves.
diagInDir ==
  "c4" :> ("NE" :> "idl" @@ "SE" :> "idr") @@ "c5" :> ("NE" :> "idl" @@ "SE" :> "idr")
  @@ "d3" :> ("NW" :> "idl" @@ "NE" :> "idr") @@ "d6" :> ("SE" :> "idl" @@ "SW" :> "idr")
  @@ "e3" :> ("NW" :> "idl" @@ "NE" :> "idr") @@ "e6" :> ("SE" :> "idl" @@ "SW" :> "idr")
  @@ "f4" :> ("SW" :> "idl" @@ "NW" :> "idr") @@ "f5" :> ("SW" :> "idl" @@ "NW" :> "idr")
  @@ "c4'" :> ("NE" :> "idr" @@ "SE" :> "idl") @@ "c5'" :> ("NE" :> "idr" @@ "SE" :> "idl")
  @@ "d3'" :> ("NW" :> "idr" @@ "NE" :> "idl") @@ "d6'" :> ("SE" :> "idr" @@ "SW" :> "idl")
  @@ "e3'" :> ("NW" :> "idr" @@ "NE" :> "idl") @@ "e6'" :> ("SE" :> "idr" @@ "SW" :> "idl")
  @@ "f4'" :> ("SW" :> "idr" @@ "NW" :> "idl") @@ "f5'" :> ("SW" :> "idr" @@ "NW" :> "idl")

diagOutDir ==
  "c4" :> ("odl" :> "SW" @@ "odr" :> "NW") @@ "c5" :> ("odl" :> "SW" @@ "odr" :> "NW")
  @@ "d3" :> ("odl" :> "SE" @@ "odr" :> "SW") @@ "d6" :> ("odl" :> "NW" @@ "odr" :> "NE")
  @@ "e3" :> ("odl" :> "SE" @@ "odr" :> "SW") @@ "e6" :> ("odl" :> "NW" @@ "odr" :> "NE")
  @@ "f4" :> ("odl" :> "NE" @@ "odr" :> "SE") @@ "f5" :> ("odl" :> "NE" @@ "odr" :> "SE")
  @@ "c4'" :> ("odr" :> "SW" @@ "odl" :> "NW") @@ "c5'" :> ("odr" :> "SW" @@ "odl" :> "NW")
  @@ "d3'" :> ("odr" :> "SE" @@ "odl" :> "SW") @@ "d6'" :> ("odr" :> "NW" @@ "odl" :> "NE")
  @@ "e3'" :> ("odr" :> "SE" @@ "odl" :> "SW") @@ "e6'" :> ("odr" :> "NW" @@ "odl" :> "NE")
  @@ "f4'" :> ("odr" :> "NE" @@ "odl" :> "SE") @@ "f5'" :> ("odr" :> "NE" @@ "odl" :> "SE")

(***************************************************************************)
(* A move result: the Set `moves` and the Map `paths` of the source.  A    *)
(* Map.set overwrites, so the entry written last wins.                     *)
(***************************************************************************)
emptyResult == [moves |-> {}, paths |-> <<>>]

addMove(acc, next, newPath) ==
  [moves |-> acc.moves \cup {next}, paths |-> (next :> newPath) @@ acc.paths]

\* pentagon table lookup `table[square][dir] || []`
exitsOf(table, square, dir) ==
  IF dir \in DOMAIN table[square] THEN table[square][dir] ELSE <<>>

(***************************************************************************)
(* Sliding traversal.  One evaluation of traverseLine / traverseDiagonal   *)
(* is one call of the source function: it yields the updated result and    *)
(* the recursive calls the body makes, in call order.  runCalls executes   *)
(* the pending calls depth-first in that order (the call stack of the      *)
(* source made explicit), so results and overwrites happen in the order of *)
(* the source.  A call carries its own visitedLine: the straight           *)
(* continuation is the last use of the caller's Set and every pentagon     *)
(* branch gets new Set(visitedLine).                                       *)
(***************************************************************************)
call(current, dir, visitedLine, pathsSoFar) ==
  [current |-> current, dir |-> dir, visitedLine |-> visitedLine, pathsSoFar |-> pathsSoFar]

returns(acc, calls) == [acc |-> acc, calls |-> calls]

\* A capture test that takes every piece for an opponent.
anyPiece(occupiedByTeam, next, team) == TRUE

\* occupiedByTeam[next] !== team
isOpponent(occupiedByTeam, next, team) == occupiedByTeam[next] # team

\* A line test that never finds the line visited.
neverVisited(visitedLine, lineKey) == FALSE

\* A line test keyed by the square alone, whatever the direction.
visitedSquareHas(visitedLine, lineKey) == \E key \in visitedLine : key[1] = lineKey[1]

\* visitedLine.has(lineKey)
visitedLineHas(visitedLine, lineKey) == lineKey \in visitedLine

\* What a call does once its direction and the square ahead are known; `table` is
\* the pentagon table of the piece and branchDir the direction its rows are read by.
arrive(acc, occupiedByTeam, team, lineKey, next, nextDir, table, branchDir, visitedLine, newPath) ==
  IF next = null THEN returns(acc, <<>>)
  ELSE IF visitedLineHas(visitedLine, lineKey) THEN returns(acc, <<>>)
  ELSE IF next \in DOMAIN occupiedByTeam
       THEN IF isOpponent(occupiedByTeam, next, team)
            THEN returns(addMove(acc, next, newPath), <<>>)
            ELSE returns(acc, <<>>)
  ELSE IF next \in DOMAIN table
       THEN returns(addMove(acc, next, newPath),
                    [i \in 1..Len(exitsOf(table, next, branchDir)) |->
                       call(next, exitsOf(table, next, branchDir)[i],
                            visitedLine \cup {lineKey}, newPath)])
       ELSE returns(addMove(acc, next, newPath),
                    <<call(next, nextDir, visitedLine \cup {lineKey}, newPath)>>)

\* The remapping of the direction at the ring boundary (out, then in).
lineDir(current, dir) ==
  IF current \in DOMAIN inDir
     /\ (IF current \in DOMAIN outDir /\ dir = "out" THEN outDir[current] ELSE dir)
          = inDir[current]
  THEN "in"
  ELSE IF current \in DOMAIN outDir /\ dir = "out" THEN outDir[current] ELSE dir

\* A line that keeps its direction when it changes layer.
sameDir(current, dir, next) == dir

lineNextDir(current, dir, next) ==
  IF next # null /\ endsWithPrime(current) # endsWithPrime(next)
  THEN oppositeDir[dir] ELSE dir

lineAhead(acc, occupiedByTeam, team, current, dir, next, visitedLine, pathsSoFar) ==
  arrive(acc, occupiedByTeam, team, <<current, dir>>, next,
         lineNextDir(current, dir, next), pentagonOrthogonalExits,
         lineNextDir(current, dir, next), visitedLine, Append(pathsSoFar, next))

lineFrom(acc, occupiedByTeam, team, current, dir, visitedLine, pathsSoFar) ==
  lineAhead(acc, occupiedByTeam, team, current, dir, edge(current, dir),
            visitedLine, pathsSoFar)

traverseLine(acc, occupiedByTeam, team, current, dir, visitedLine, pathsSoFar) ==
  IF ~hasNode(current) THEN returns(acc, <<>>)
  ELSE lineFrom(acc, occupiedByTeam, team, current, lineDir(current, dir),
                visitedLine, pathsSoFar)

\* The remapping of a diagonal direction at the ring boundary (in, then out).
diagonalInDir(current, dir) ==
  IF current \in DOMAIN diagInDir /\ dir \in DOMAIN diagInDir[current]
  THEN diagInDir[current][dir] ELSE dir

diagonalOutDir(current, dir) ==
  IF current \in DOMAIN diagOutDir /\ dir \in DOMAIN diagOutDir[current]
  THEN diagOutDir[current][dir] ELSE dir

diagonalNextDir(current, dir, next) ==
  IF next # null /\ endsWithPrime(current) # endsWithPrime(next)
  THEN (IF dir = "idl" THEN "odl" ELSE IF dir = "idr" THEN "odr" ELSE dir)
  ELSE dir

diagonalAhead(acc, occupiedByTeam, team, current, dir, next, visitedLine, pathsSoFar) ==
  arrive(acc, occupiedByTeam, team, <<current, dir>>, next,
         diagonalNextDir(current, dir, next), pentagonDiagonalExits, dir,
         visitedLine, Append(pathsSoFar, next))

diagonalFrom(acc, occupiedByTeam, team, current, dir, visitedLine, pathsSoFar) ==
  diagonalAhead(acc, occupiedByTeam, team, current, dir, edge(current, dir),
                visitedLine, pathsSoFar)

traverseDiagonal(acc, occupiedByTeam, team, current, dir, visitedLine, pathsSoFar) ==
  IF ~hasNode(current) THEN returns(acc, <<>>)
  ELSE diagonalFrom(acc, occupiedByTeam, team, current,
                    diagonalOutDir(current, diagonalInDir(current, dir)),
                    visitedLine, pathsSoFar)

\* Executes the oldest pending call; the calls it makes run before the rest.
afterCall(r, pending) == [acc |-> r.acc, pending |-> r.calls \o Tail(pending)]

callOf(traverse, acc, occupiedByTeam, team, c) ==
  IF traverse = "line"
  THEN traverseLine(acc, occupiedByTeam, team, c.current, c.dir, c.visitedLine, c.pathsSoFar)
  ELSE traverseDiagonal(acc, occupiedByTeam, team, c.current, c.dir, c.visitedLine,
                        c.pathsSoFar)

runCall(traverse, occupiedByTeam, team, run) ==
  afterCall(callOf(traverse, run.acc, occupiedByTeam, team, Head(run.pending)), run.pending)

\* Up to n calls, by halving, to keep the evaluation depth logarithmic.
RECURSIVE runCallsUpTo(_, _, _, _, _)
runCallsUpTo(traverse, occupiedByTeam, team, run, n) ==
  IF run.pending = <<>> THEN run
  ELSE IF n = 1 THEN runCall(traverse, occupiedByTeam, team, run)
  ELSE runCallsUpTo(traverse, occupiedByTeam, team,
                    runCallsUpTo(traverse, occupiedByTeam, team, run, n \div 2),
                    n - (n \div 2))

RECURSIVE runCalls(_, _, _, _)
runCalls(traverse, occupiedByTeam, team, run) ==
  IF run.pending = <<>> THEN run.acc
  ELSE runCalls(traverse, occupiedByTeam, team,
                runCallsUpTo(traverse, occupiedByTeam, team, run, 64))

\* The eight directions of a flat board.
compassDirections == <<"N", "S", "E", "W", "NE", "NW", "SE", "SW">>

\* The sixteen directions of the graph, tried by the king.
allDirections ==
  <<"N", "S", "E", "W", "NE", "NW", "SE", "SW", "in", "out", "cw", "ccw",
    "idl", "idr", "odl", "odr">>

\* The initial directions of a piece that slides along lines and diagonals alike.
lineAndDiagonalDirs ==
  <<"N", "S", "E", "W", "in", "out", "cw", "ccw",
    "NE", "NW", "SE", "SW", "idl", "idr", "odl", "odr">>

orthogonalInitialDirs == <<"N", "S", "E", "W", "in", "out", "cw", "ccw">>

\* The query without its last statement, moves.delete(start).
keepStart(acc, start) == acc

\* moves.delete(start) removes the start from the Set only; the Map keeps its entry.
deleteStart(acc, start) == [acc EXCEPT !.moves = @ \ {start}]

calculateOrthogonalMoves(start, occupiedByTeam, team) ==
  deleteStart(
    runCalls("line", occupiedByTeam, team,
             [acc |-> emptyResult,
              pending |-> [i \in 1..Len(orthogonalInitialDirs) |->
                             call(start, orthogonalInitialDirs[i], {}, <<start>>)]]),
    start)

diagonalInitialDirs == <<"NE", "NW", "SE", "SW", "idl", "idr", "odl", "odr">>

calculateDiagonalMoves(start, occupiedByTeam, team) ==
  runCalls("diagonal", occupiedByTeam, team,
           [acc |-> emptyResult,
            pending |-> [i \in 1..Len(diagonalInitialDirs) |->
                           call(start, diagonalInitialDirs[i], {}, <<start>>)]])

(***************************************************************************)
(* Knight.                                                                 *)
(***************************************************************************)
ringSquares ==
  {"d4", "e4", "d5", "e5", "x1", "x2", "x3", "x4", "y1", "y2", "y3", "y4",
   "d4'", "e4'", "d5'", "e5'", "x1'", "x2'", "x3'", "x4'", "y1'", "y2'", "y3'", "y4'"}

basePerpendicular ==
  "N" :> <<"E", "W">> @@ "S" :> <<"E", "W">> @@ "E" :> <<"N", "S">> @@ "W" :> <<"N", "S">>
  @@ "cw" :> <<"in", "out">> @@ "ccw" :> <<"in", "out">> @@ "in" :> <<"cw", "ccw">>
  @@ "out" :> <<"cw", "ccw">> @@ "NE" :> <<>> @@ "NW" :> <<>> @@ "SE" :> <<>> @@ "SW" :> <<>>
  @@ "idl" :> <<>> @@ "idr" :> <<>> @@ "odl" :> <<>> @@ "odr" :> <<>> @@ "od" :> <<>>

\* A third step straight on, in the direction of the first two.  The knight does not
\* walk this way: its third step turns.
straightOn(square, primaryDir) == <<primaryDir>>

getPerpendicularDirs(square, primaryDir) ==
  IF square \in ringSquares /\ primaryDir \in {"in", "out"} THEN <<"cw", "ccw">>
  ELSE IF square \in ringSquares /\ primaryDir \in {"cw", "ccw"} THEN <<"in", "out">>
  ELSE IF primaryDir \in DOMAIN basePerpendicular THEN basePerpendicular[primaryDir]
  ELSE <<>>

\* The direction moveOneSquare leaves `current` by: the second test reads the
\* direction passed in, not the remapped one.
hopDir(current, dir) ==
  IF current \in DOMAIN inDir /\ dir = inDir[current] THEN "in"
  ELSE IF current \in DOMAIN outDir /\ dir = "out" THEN outDir[current]
  ELSE dir

hopSteps(next, nextDir, exits) ==
  IF next \in DOMAIN pentagonOrthogonalExits /\ Len(exits) > 0
  THEN [i \in 1..Len(exits) |-> [square |-> next, nextDir |-> exits[i]]]
  ELSE <<[square |-> next, nextDir |-> nextDir]>>

hopArrive(next, nextDir) ==
  hopSteps(next, nextDir,
           IF next \in DOMAIN pentagonOrthogonalExits
           THEN exitsOf(pentagonOrthogonalExits, next, nextDir) ELSE <<>>)

hopAhead(current, actualDir, next) ==
  IF next = null THEN <<>>
  ELSE hopArrive(next, IF endsWithPrime(current) # endsWithPrime(next)
                       THEN oppositeDir[actualDir] ELSE actualDir)

hopFrom(current, actualDir) == hopAhead(current, actualDir, edge(current, actualDir))

\* The steps of one hop: a sequence of [square, nextDir], one per pentagon exit.
moveOneSquare(current, dir) ==
  IF ~hasNode(current) THEN <<>> ELSE hopFrom(current, hopDir(current, dir))

RECURSIVE flatten(_)
flatten(seqs) == IF seqs = <<>> THEN <<>> ELSE Head(seqs) \o flatten(Tail(seqs))

primaryDirs == <<"N", "S", "E", "W", "in", "out", "cw", "ccw">>

\* The nested loops of calculateKnightMoves, innermost first: each yields the
\* destinations with their full paths in the order the loops reach them.
thirdLoop(intermediatePath, thirdSteps) ==
  [e \in 1..Len(thirdSteps) |->
     [destination |-> thirdSteps[e].square,
      fullPath |-> Append(intermediatePath, thirdSteps[e].square)]]

perpLoop(intermediatePath, square, perpDirs) ==
  flatten([d \in 1..Len(perpDirs) |->
             thirdLoop(intermediatePath, moveOneSquare(square, perpDirs[d]))])

secondLoop(start, step1, secondSteps) ==
  flatten([c \in 1..Len(secondSteps) |->
             perpLoop(<<start, step1.square, secondSteps[c].square>>,
                      secondSteps[c].square,
                      getPerpendicularDirs(secondSteps[c].square, secondSteps[c].nextDir))])

firstLoop(start, firstSteps) ==
  flatten([b \in 1..Len(firstSteps) |->
             secondLoop(start, firstSteps[b],
                        moveOneSquare(firstSteps[b].square, firstSteps[b].nextDir))])

knightCandidates(start) ==
  flatten([a \in 1..Len(primaryDirs) |->
             firstLoop(start, moveOneSquare(start, primaryDirs[a]))])

\* The rule of a piece that walks its path: a candidate is also dropped when a square
\* of its first or second leg is occupied.  The knight does not follow it.
walkingResult(cands, occupiedByTeam, team) ==
  LET ok(i) == /\ cands[i].destination \notin DOMAIN occupiedByTeam
                  \/ occupiedByTeam[cands[i].destination] # team
               /\ cands[i].fullPath[2] \notin DOMAIN occupiedByTeam
               /\ cands[i].fullPath[3] \notin DOMAIN occupiedByTeam
      dests == {cands[i].destination : i \in {j \in DOMAIN cands : ok(j)}}
      firstAt(dest) == CHOOSE i \in DOMAIN cands :
                         /\ cands[i].destination = dest
                         /\ ok(i)
                         /\ \A j \in DOMAIN cands :
                              cands[j].destination = dest /\ ok(j) => i <= j
  IN [moves |-> dests, paths |-> [dest \in dests |-> cands[firstAt(dest)].fullPath]]

\* Own-team destinations are skipped; the first path found for a destination is kept.
knightResult(cands, occupiedByTeam, team) ==
  LET ok(i) == cands[i].destination \notin DOMAIN occupiedByTeam
               \/ occupiedByTeam[cands[i].destination] # team
      dests == {cands[i].destination : i \in {j \in DOMAIN cands : ok(j)}}
      firstAt(dest) == CHOOSE i \in DOMAIN cands :
                         /\ cands[i].destination = dest
                         /\ \A j \in DOMAIN cands : cands[j].destination = dest => i <= j
  IN [moves |-> dests, paths |-> [dest \in dests |-> cands[firstAt(dest)].fullPath]]

calculateKnightMoves(start, occupiedByTeam, team) ==
  knightResult(knightCandidates(start), occupiedByTeam, team)

(***************************************************************************)
(* Pieces.  An identifier is the string of the source; PieceInfo gives the *)
(* prefix tested by startsWith and the piece word tested by includes.      *)
(***************************************************************************)
PieceInfo ==
  "team1-rook-a1" :> [prefix |-> "team1", word |-> "rook"]
  @@ "team1-rook-h1" :> [prefix |-> "team1", word |-> "rook"]
  @@ "team1-bishop-c1" :> [prefix |-> "team1", word |-> "bishop"]
  @@ "team1-bishop-f1" :> [prefix |-> "team1", word |-> "bishop"]
  @@ "team1-knight-b1" :> [prefix |-> "team1", word |-> "knight"]
  @@ "team1-knight-g1" :> [prefix |-> "team1", word |-> "knight"]
  @@ "team1-queen-d1" :> [prefix |-> "team1", word |-> "queen"]
  @@ "team1-king-e1" :> [prefix |-> "team1", word |-> "king"]
  @@ "team2-rook-a8" :> [prefix |-> "team2", word |-> "rook"]
  @@ "team2-rook-h8" :> [prefix |-> "team2", word |-> "rook"]
  @@ "team2-bishop-c8" :> [prefix |-> "team2", word |-> "bishop"]
  @@ "team2-bishop-f8" :> [prefix |-> "team2", word |-> "bishop"]
  @@ "team2-knight-b8" :> [prefix |-> "team2", word |-> "knight"]
  @@ "team2-knight-g8" :> [prefix |-> "team2", word |-> "knight"]
  @@ "team2-queen-d8" :> [prefix |-> "team2", word |-> "queen"]
  @@ "team2-king-e8" :> [prefix |-> "team2", word |-> "king"]
  @@ "team3-rook-a1'" :> [prefix |-> "team3", word |-> "rook"]
  @@ "team3-rook-h1'" :> [prefix |-> "team3", word |-> "rook"]
  @@ "team3-bishop-c1'" :> [prefix |-> "team3", word |-> "bishop"]
  @@ "team3-bishop-f1'" :> [prefix |-> "team3", word |-> "bishop"]
  @@ "team3-queen-d1'" :> [prefix |-> "team3", word |-> "queen"]
  @@ "team3-king-e1'" :> [prefix |-> "team3", word |-> "king"]
  @@ "team4-rook-a8'" :> [prefix |-> "team4", word |-> "rook"]
  @@ "team4-rook-h8'" :> [prefix |-> "team4", word |-> "rook"]
  @@ "team4-bishop-c8'" :> [prefix |-> "team4", word |-> "bishop"]
  @@ "team4-bishop-f8'" :> [prefix |-> "team4", word |-> "bishop"]
  @@ "team4-queen-d8'" :> [prefix |-> "team4", word |-> "queen"]
  @@ "team4-king-e8'" :> [prefix |-> "team4", word |-> "king"]
  @@ "player1-rook-a1" :> [prefix |-> "player1", word |-> "rook"]
  @@ "player1-rook-h1" :> [prefix |-> "player1", word |-> "rook"]
  @@ "player1-bishop-c1" :> [prefix |-> "player1", word |-> "bishop"]
  @@ "player1-bishop-f1" :> [prefix |-> "player1", word |-> "bishop"]
  @@ "player1-knight-b1" :> [prefix |-> "player1", word |-> "knight"]
  @@ "player1-knight-g1" :> [prefix |-> "player1", word |-> "knight"]
  @@ "player1-queen-d1" :> [prefix |-> "player1", word |-> "queen"]
  @@ "player1-king-e1" :> [prefix |-> "player1", word |-> "king"]
  @@ "player2-rook-a8" :> [prefix |-> "player2", word |-> "rook"]
  @@ "player2-rook-h8" :> [prefix |-> "player2", word |-> "rook"]
  @@ "player2-bishop-c8" :> [prefix |-> "player2", word |-> "bishop"]
  @@ "player2-bishop-f8" :> [prefix |-> "player2", word |-> "bishop"]
  @@ "player2-knight-b8" :> [prefix |-> "player2", word |-> "knight"]
  @@ "player2-knight-g8" :> [prefix |-> "player2", word |-> "knight"]
  @@ "player2-queen-d8" :> [prefix |-> "player2", word |-> "queen"]
  @@ "player2-king-e8" :> [prefix |-> "player2", word |-> "king"]
  @@ "player3-rook-a1'" :> [prefix |-> "player3", word |-> "rook"]
  @@ "player3-rook-h1'" :> [prefix |-> "player3", word |-> "rook"]
  @@ "player3-knight-b1'" :> [prefix |-> "player3", word |-> "knight"]
  @@ "player3-knight-g1'" :> [prefix |-> "player3", word |-> "knight"]
  @@ "player3-bishop-c1'" :> [prefix |-> "player3", word |-> "bishop"]
  @@ "player3-bishop-f1'" :> [prefix |-> "player3", word |-> "bishop"]
  @@ "player3-queen-d1'" :> [prefix |-> "player3", word |-> "queen"]
  @@ "player3-king-e1'" :> [prefix |-> "player3", word |-> "king"]
  @@ "player4-rook-a8'" :> [prefix |-> "player4", word |-> "rook"]
  @@ "player4-rook-h8'" :> [prefix |-> "player4", word |-> "rook"]
  @@ "player4-knight-b8'" :> [prefix |-> "player4", word |-> "knight"]
  @@ "player4-knight-g8'" :> [prefix |-> "player4", word |-> "knight"]
  @@ "player4-bishop-c8'" :> [prefix |-> "player4", word |-> "bishop"]
  @@ "player4-bishop-f8'" :> [prefix |-> "player4", word |-> "bishop"]
  @@ "player4-queen-d8'" :> [prefix |-> "player4", word |-> "queen"]
  @@ "player4-king-e8'" :> [prefix |-> "player4", word |-> "king"]
  @@ "player1-pawn-a2" :> [prefix |-> "player1", word |-> "pawn"]
  @@ "player1-pawn-b2" :> [prefix |-> "player1", word |-> "pawn"]
  @@ "player1-pawn-c2" :> [prefix |-> "player1", word |-> "pawn"]
  @@ "player1-pawn-d2" :> [prefix |-> "player1", word |-> "pawn"]
  @@ "player1-pawn-e2" :> [prefix |-> "player1", word |-> "pawn"]
  @@ "player1-pawn-f2" :> [prefix |-> "player1", word |-> "pawn"]
  @@ "player1-pawn-g2" :> [prefix |-> "player1", word |-> "pawn"]
  @@ "player1-pawn-h2" :> [prefix |-> "player1", word |-> "pawn"]
  @@ "player2-pawn-a7" :> [prefix |-> "player2", word |-> "pawn"]
  @@ "player2-pawn-b7" :> [prefix |-> "player2", word |-> "pawn"]
  @@ "player2-pawn-c7" :> [prefix |-> "player2", word |-> "pawn"]
  @@ "player2-pawn-d7" :> [prefix |-> "player2", word |-> "pawn"]
  @@ "player2-pawn-e7" :> [prefix |-> "player2", word |-> "pawn"]
  @@ "player2-pawn-f7" :> [prefix |-> "player2", word |-> "pawn"]
  @@ "player2-pawn-g7" :> [prefix |-> "player2", word |-> "pawn"]
  @@ "player2-pawn-h7" :> [prefix |-> "player2", word |-> "pawn"]
  @@ "player3-pawn-a2'" :> [prefix |-> "player3", word |-> "pawn"]
  @@ "player3-pawn-b2'" :> [prefix |-> "player3", word |-> "pawn"]
  @@ "player3-pawn-c2'" :> [prefix |-> "player3", word |-> "pawn"]
  @@ "player3-pawn-d2'" :> [prefix |-> "player3", word |-> "pawn"]
  @@ "player3-pawn-e2'" :> [prefix |-> "player3", word |-> "pawn"]
  @@ "player3-pawn-f2'" :> [prefix |-> "player3", word |-> "pawn"]
  @@ "player3-pawn-g2'" :> [prefix |-> "player3", word |-> "pawn"]
  @@ "player3-pawn-h2'" :> [prefix |-> "player3", word |-> "pawn"]
  @@ "player4-pawn-a7'" :> [prefix |-> "player4", word |-> "pawn"]
  @@ "player4-pawn-b7'" :> [prefix |-> "player4", word |-> "pawn"]
  @@ "player4-pawn-c7'" :> [prefix |-> "player4", word |-> "pawn"]
  @@ "player4-pawn-d7'" :> [prefix |-> "player4", word |-> "pawn"]
  @@ "player4-pawn-e7'" :> [prefix |-> "player4", word |-> "pawn"]
  @@ "player4-pawn-f7'" :> [prefix |-> "player4", word |-> "pawn"]
  @@ "player4-pawn-g7'" :> [prefix |-> "player4", word |-> "pawn"]
  @@ "player4-pawn-h7'" :> [prefix |-> "player4", word |-> "pawn"]
  @@ "team1-pawn-a2" :> [prefix |-> "team1", word |-> "pawn"]
  @@ "team1-pawn-d2" :> [prefix |-> "team1", word |-> "pawn"]
  @@ "team2-pawn-b7" :> [prefix |-> "team2", word |-> "pawn"]
  @@ "team2-pawn-c7" :> [prefix |-> "team2", word |-> "pawn"]
  @@ "team3-pawn-a2'" :> [prefix |-> "team3", word |-> "pawn"]
  @@ "team3-pawn-g2'" :> [prefix |-> "team3", word |-> "pawn"]
  @@ "team4-pawn-b7'" :> [prefix |-> "team4", word |-> "pawn"]

\* The initial piecePositions object (useState), entries in source order.
initialPiecePositions ==
  <<[id |-> "team1-rook-a1", pos |-> "a1"],
    [id |-> "team1-rook-h1", pos |-> "h1"],
    [id |-> "team1-bishop-c1", pos |-> "c1"],
    [id |-> "team1-bishop-f1", pos |-> "f1"],
    [id |-> "team1-knight-b1", pos |-> "b1"],
    [id |-> "team1-knight-g1", pos |-> "g1"],
    [id |-> "team1-queen-d1", pos |-> "d1"],
    [id |-> "team1-king-e1", pos |-> "e1"],
    [id |-> "team2-rook-a8", pos |-> "a8"],
    [id |-> "team2-rook-h8", pos |-> "h8"],
    [id |-> "team2-bishop-c8", pos |-> "c8"],
    [id |-> "team2-bishop-f8", pos |-> "f8"],
    [id |-> "team2-knight-b8", pos |-> "b8"],
    [id |-> "team2-knight-g8", pos |-> "g8"],
    [id |-> "team2-queen-d8", pos |-> "d8"],
    [id |-> "team2-king-e8", pos |-> "e8"],
    [id |-> "team3-rook-a1'", pos |-> "a1'"],
    [id |-> "team3-rook-h1'", pos |-> "h1'"],
    [id |-> "team3-bishop-c1'", pos |-> "c1'"],
    [id |-> "team3-bishop-f1'", pos |-> "f1'"],
    [id |-> "team3-queen-d1'", pos |-> "d1'"],
    [id |-> "team3-king-e1'", pos |-> "e1'"],
    [id |-> "team4-rook-a8'", pos |-> "a8'"],
    [id |-> "team4-rook-h8'", pos |-> "h8'"],
    [id |-> "team4-bishop-c8'", pos |-> "c8'"],
    [id |-> "team4-bishop-f8'", pos |-> "f8'"],
    [id |-> "team4-queen-d8'", pos |-> "d8'"],
    [id |-> "team4-king-e8'", pos |-> "e8'"]>>

\* DEFAULT_PIECE_POSITIONS of players 1 to 4 spread into one object.
DEFAULT_PIECE_POSITIONS ==
  <<[id |-> "player1-rook-a1", pos |-> "a1"],
    [id |-> "player1-rook-h1", pos |-> "h1"],
    [id |-> "player1-bishop-c1", pos |-> "c1"],
    [id |-> "player1-bishop-f1", pos |-> "f1"],
    [id |-> "player1-knight-b1", pos |-> "b1"],
    [id |-> "player1-knight-g1", pos |-> "g1"],
    [id |-> "player1-queen-d1", pos |-> "d1"],
    [id |-> "player1-king-e1", pos |-> "e1"],
    [id |-> "player2-rook-a8", pos |-> "a8"],
    [id |-> "player2-rook-h8", pos |-> "h8"],
    [id |-> "player2-bishop-c8", pos |-> "c8"],
    [id |-> "player2-bishop-f8", pos |-> "f8"],
    [id |-> "player2-knight-b8", pos |-> "b8"],
    [id |-> "player2-knight-g8", pos |-> "g8"],
    [id |-> "player2-queen-d8", pos |-> "d8"],
    [id |-> "player2-king-e8", pos |-> "e8"],
    [id |-> "player3-rook-a1'", pos |-> "a1'"],
    [id |-> "player3-rook-h1'", pos |-> "h1'"],
    [id |-> "player3-knight-b1'", pos |-> "b1'"],
    [id |-> "player3-knight-g1'", pos |-> "g1'"],
    [id |-> "player3-bishop-c1'", pos |-> "c1'"],
    [id |-> "player3-bishop-f1'", pos |-> "f1'"],
    [id |-> "player3-queen-d1'", pos |-> "d1'"],
    [id |-> "player3-king-e1'", pos |-> "e1'"],
    [id |-> "player4-rook-a8'", pos |-> "a8'"],
    [id |-> "player4-rook-h8'", pos |-> "h8'"],
    [id |-> "player4-knight-b8'", pos |-> "b8'"],
    [id |-> "player4-knight-g8'", pos |-> "g8'"],
    [id |-> "player4-bishop-c8'", pos |-> "c8'"],
    [id |-> "player4-bishop-f8'", pos |-> "f8'"],
    [id |-> "player4-queen-d8'", pos |-> "d8'"],
    [id |-> "player4-king-e8'", pos |-> "e8'"]>>

\* DEFAULT_PAWN_POSITIONS of players 1 to 4 spread into one object.
DEFAULT_PAWN_POSITIONS ==
  <<[id |-> "player1-pawn-a2", position |-> "a2", direction |-> "N"],
    [id |-> "player1-pawn-b2", position |-> "b2", direction |-> "N"],
    [id |-> "player1-pawn-c2", position |-> "c2", direction |-> "N"],
    [id |-> "player1-pawn-d2", position |-> "d2", direction |-> "N"],
    [id |-> "player1-pawn-e2", position |-> "e2", direction |-> "N"],
    [id |-> "player1-pawn-f2", position |-> "f2", direction |-> "N"],
    [id |-> "player1-pawn-g2", position |-> "g2", direction |-> "N"],
    [id |-> "player1-pawn-h2", position |-> "h2", direction |-> "N"],
    [id |-> "player2-pawn-a7", position |-> "a7", direction |-> "S"],
    [id |-> "player2-pawn-b7", position |-> "b7", direction |-> "S"],
    [id |-> "player2-pawn-c7", position |-> "c7", direction |-> "S"],
    [id |-> "player2-pawn-d7", position |-> "d7", direction |-> "S"],
    [id |-> "player2-pawn-e7", position |-> "e7", direction |-> "S"],
    [id |-> "player2-pawn-f7", position |-> "f7", direction |-> "S"],
    [id |-> "player2-pawn-g7", position |-> "g7", direction |-> "S"],
    [id |-> "player2-pawn-h7", position |-> "h7", direction |-> "S"],
    [id |-> "player3-pawn-a2'", position |-> "a2'", direction |-> "N"],
    [id |-> "player3-pawn-b2'", position |-> "b2'", direction |-> "N"],
    [id |-> "player3-pawn-c2'", position |-> "c2'", direction |-> "N"],
    [id |-> "player3-pawn-d2'", position |-> "d2'", direction |-> "N"],
    [id |-> "player3-pawn-e2'", position |-> "e2'", direction |-> "N"],
    [id |-> "player3-pawn-f2'", position |-> "f2'", direction |-> "N"],
    [id |-> "player3-pawn-g2'", position |-> "g2'", direction |-> "N"],
    [id |-> "player3-pawn-h2'", position |-> "h2'", direction |-> "N"],
    [id |-> "player4-pawn-a7'", position |-> "a7'", direction |-> "S"],
    [id |-> "player4-pawn-b7'", position |-> "b7'", direction |-> "S"],
    [id |-> "player4-pawn-c7'", position |-> "c7'", direction |-> "S"],
    [id |-> "player4-pawn-d7'", position |-> "d7'", direction |-> "S"],
    [id |-> "player4-pawn-e7'", position |-> "e7'", direction |-> "S"],
    [id |-> "player4-pawn-f7'", position |-> "f7'", direction |-> "S"],
    [id |-> "player4-pawn-g7'", position |-> "g7'", direction |-> "S"],
    [id |-> "player4-pawn-h7'", position |-> "h7'", direction |-> "S"]>>

\* Bound on the values Date.now() takes in the identifiers of promoted queens.
MaxStamp == 1

\* `team${team}-queen-promoted-${Date.now()}`
promotedId(team, now) == "team" \o ToString(team) \o "-queen-promoted-" \o ToString(now)

idPrefix(id) ==
  IF id \in DOMAIN PieceInfo THEN PieceInfo[id].prefix
  ELSE "team" \o ToString(CHOOSE t \in 1..4 : \E now \in 1..MaxStamp : id = promotedId(t, now))

\* id.includes(word) for the piece words rook, bishop, queen, king, pawn, knight.
idIncludes(id, word) ==
  IF id \in DOMAIN PieceInfo THEN PieceInfo[id].word = word ELSE word = "queen"

getTeamFromId(id) ==
  IF idPrefix(id) = "team1" THEN 1
  ELSE IF idPrefix(id) = "team2" THEN 2
  ELSE IF idPrefix(id) = "team3" THEN 3
  ELSE IF idPrefix(id) = "team4" THEN 4
  ELSE 1

getPlayerFromPieceId(id) ==
  IF idPrefix(id) = "player1" THEN 1
  ELSE IF idPrefix(id) = "player2" THEN 2
  ELSE IF idPrefix(id) = "player3" THEN 3
  ELSE IF idPrefix(id) = "player4" THEN 4
  ELSE 1

\* The owner a variant reads from an id: getTeamFromId in the teams' scene,
\* getPlayerFromPieceId in the players' scene.
ownerOf(scheme, id) ==
  IF scheme = "team" THEN getTeamFromId(id) ELSE getPlayerFromPieceId(id)

\* id.split("-")[1]
getPieceFromId(id) == IF id \in DOMAIN PieceInfo THEN PieceInfo[id].word ELSE "queen"

(***************************************************************************)
(* The piecePositions object: a sequence of entries [id, pos].             *)
(***************************************************************************)
hasKey(positions, id) == \E i \in DOMAIN positions : positions[i].id = id

\* positions[id]; null (undefined) when the key is absent.
lookup(positions, id) ==
  IF hasKey(positions, id)
  THEN positions[CHOOSE i \in DOMAIN positions : positions[i].id = id].pos
  ELSE null

\* { ...positions, [id]: pos }: an existing key keeps its place, a new key is last.
setKey(positions, id, pos) ==
  IF hasKey(positions, id)
  THEN [i \in DOMAIN positions |->
          IF positions[i].id = id THEN [id |-> id, pos |-> pos] ELSE positions[i]]
  ELSE Append(positions, [id |-> id, pos |-> pos])

\* delete positions[id]
deleteKey(positions, id) == SelectSeq(positions, LAMBDA e : e.id # id)

\* Object.entries(positions).find(test), given the indices of the entries that pass
\* the test: the index of the first match, 0 if none.
findEntry(positions, hits) ==
  IF hits = {} THEN 0 ELSE CHOOSE i \in hits : \A j \in hits : i <= j

\* Object.fromEntries(entries.map(([id, notation]) => [notation, team])): a later
\* entry on the same square overwrites an earlier one.
fromEntries(entries, scheme) ==
  [sq \in {entries[i].pos : i \in DOMAIN entries} |->
     ownerOf(scheme, entries[CHOOSE i \in DOMAIN entries :
                     /\ entries[i].pos = sq
                     /\ \A j \in DOMAIN entries : entries[j].pos = sq => j <= i].id)]

occupiedByTeamOf(positions) == fromEntries(positions, "team")

(***************************************************************************)
(* King and castling.                                                      *)
(***************************************************************************)
isSet(flags, id) == id \in DOMAIN flags /\ flags[id]

\* getCastlingPath(direction, squares): the squares walked, <<>> when an edge is missing.
castlingWalk(first, second, third, squares) ==
  IF first = null \/ second = null \/ (squares = 3 /\ third = null) THEN <<>>
  ELSE IF squares = 3 THEN <<first, second, third>> ELSE <<first, second>>

castlingSecond(first, second, direction, squares) ==
  castlingWalk(first, second,
               IF second = null THEN null ELSE edge(second, direction), squares)

castlingFirst(first, direction, squares) ==
  castlingSecond(first, IF first = null THEN null ELSE edge(first, direction),
                 direction, squares)

getCastlingPath(start, direction, squares) ==
  castlingFirst(edge(start, direction), direction, squares)

\* A path test that looks at the first square only.
isFirstSquareClear(pathSquares, occupiedByTeam) ==
  pathSquares[1] \notin DOMAIN occupiedByTeam

isPathClear(pathSquares, occupiedByTeam) ==
  \A i \in DOMAIN pathSquares : pathSquares[i] \notin DOMAIN occupiedByTeam

\* The sixteen neighbours of start in the order of allDirections (null: no edge).
neighbours(start) == [i \in DOMAIN allDirections |-> edge(start, allDirections[i])]

stepsOver(start, around, occupiedByTeam, team) ==
  LET dests == {around[i] : i \in {j \in DOMAIN around :
                                     /\ around[j] # null
                                     /\ \/ around[j] \notin DOMAIN occupiedByTeam
                                        \/ occupiedByTeam[around[j]] # team}}
  IN [moves |-> dests, paths |-> [d \in dests |-> <<start, d>>]]

kingSteps(start, occupiedByTeam, team) ==
  stepsOver(start, neighbours(start), occupiedByTeam, team)

\* The rook found on the corner square, null if none.
castlingRookAt(positions, rookSquare, team, scheme) ==
  LET i == findEntry(positions, {j \in DOMAIN positions :
                                   /\ positions[j].pos = rookSquare
                                   /\ idIncludes(positions[j].id, "rook")
                                   /\ ownerOf(scheme, positions[j].id) = team})
  IN IF i = 0 THEN null ELSE positions[i].id

castleAlong(acc, start, rookId, flags, pathSquares, squares, occupiedByTeam) ==
  IF /\ rookId # null
     /\ ~isSet(flags, rookId)
     /\ Len(pathSquares) = squares
     /\ isPathClear(pathSquares, occupiedByTeam)
  THEN addMove(acc, pathSquares[2], <<start, pathSquares[1], pathSquares[2]>>)
  ELSE acc

kingsideRookSquare(start, team) ==
  IF team = 1 THEN (IF includesPrime(start) THEN "h1'" ELSE "h1")
  ELSE (IF includesPrime(start) THEN "h8'" ELSE "h8")

queensideRookSquare(start, team) ==
  IF team = 1 THEN (IF includesPrime(start) THEN "a1'" ELSE "a1")
  ELSE (IF includesPrime(start) THEN "a8'" ELSE "a8")

kingsideCastle(acc, start, positions, occupiedByTeam, team, flags, scheme) ==
  castleAlong(acc, start,
              castlingRookAt(positions, kingsideRookSquare(start, team), team, scheme),
              flags, getCastlingPath(start, "E", 2), 2, occupiedByTeam)

queensideCastle(acc, start, positions, occupiedByTeam, team, flags, scheme) ==
  castleAlong(acc, start,
              castlingRookAt(positions, queensideRookSquare(start, team), team, scheme),
              flags, getCastlingPath(start, "W", 3), 3, occupiedByTeam)

castlingKing(positions, start, team, scheme) ==
  findEntry(positions, {j \in DOMAIN positions :
                          /\ positions[j].pos = start
                          /\ idIncludes(positions[j].id, "king")
                          /\ ownerOf(scheme, positions[j].id) = team})

startingSquares(team) == IF team = 1 THEN {"e1", "e1'"} ELSE {"e8", "e8'"}

withCastling(steps, k, start, positions, occupiedByTeam, team, flags, scheme) ==
  IF /\ k # 0
     /\ ~isSet(flags, positions[k].id)
     /\ team <= 2
     /\ start \in startingSquares(team)
  THEN queensideCastle(
         kingsideCastle(steps, start, positions, occupiedByTeam, team, flags, scheme),
         start, positions, occupiedByTeam, team, flags, scheme)
  ELSE steps

calculateKingMoves(start, positions, occupiedByTeam, team, flags, scheme) ==
  IF ~hasNode(start) THEN emptyResult
  ELSE withCastling(kingSteps(start, occupiedByTeam, team),
                    castlingKing(positions, start, team, scheme),
                    start, positions, occupiedByTeam, team, flags, scheme)

(***************************************************************************)
(* Pawn.                                                                   *)
(***************************************************************************)
OUTER_LAYER_SQUARES ==
  {"c3", "d3", "e3", "f3", "c4", "f4", "c5", "f5", "c6", "d6", "e6", "f6"}

INNER_LAYER_SQUARES ==
  {"d4", "x1", "x2", "x3", "x4", "d5", "e5", "y4", "y3", "y2", "y1", "e4"}

\* notation.replace("'", "")
withoutPrime(notation) ==
  IF includesPrime(notation) THEN charAt(notation, 0) \o charAt(notation, 1) ELSE notation

layerSuffix(isPrime) == IF isPrime THEN "'" ELSE ""

pawnForwardDir(pieceTeam, isPrime) ==
  IF pieceTeam = 1 THEN (IF isPrime THEN "S" ELSE "N")
  ELSE IF pieceTeam = 2 THEN (IF isPrime THEN "N" ELSE "S")
  ELSE IF pieceTeam = 3 THEN (IF isPrime THEN "N" ELSE "S")
  ELSE (IF isPrime THEN "S" ELSE "N")

startingRanks(pieceTeam) ==
  IF pieceTeam = 1 THEN {"2", "7'"}
  ELSE IF pieceTeam = 2 THEN {"7", "2'"}
  ELSE IF pieceTeam = 3 THEN {"2'", "7"}
  ELSE {"7'", "2"}

isStartingRank(notation, pieceTeam) ==
  (charAt(notation, 1) \o layerSuffix(includesPrime(notation))) \in startingRanks(pieceTeam)

secondForwardDir(pieceTeam, isPrime, oneForward) ==
  IF isPrime # includesPrime(oneForward)
  THEN pawnForwardDir(pieceTeam, includesPrime(oneForward))
  ELSE pawnForwardDir(pieceTeam, isPrime)

\* !(square in occupiedByTeam)
isVacant(occupiedByTeam, square) == square \notin DOMAIN occupiedByTeam

doubleForward(acc, start, oneForward, twoForward, occupiedByTeam) ==
  IF twoForward = null \/ ~isVacant(occupiedByTeam, twoForward) THEN acc
  ELSE addMove(acc, twoForward, <<start, oneForward, twoForward>>)

singleForward(start, oneForward, occupiedByTeam, pieceTeam) ==
  IF oneForward = null \/ ~isVacant(occupiedByTeam, oneForward) THEN emptyResult
  ELSE IF ~isStartingRank(start, pieceTeam) \/ ~hasNode(oneForward)
  THEN addMove(emptyResult, oneForward, <<start, oneForward>>)
  ELSE doubleForward(addMove(emptyResult, oneForward, <<start, oneForward>>),
                     start, oneForward,
                     edge(oneForward,
                          secondForwardDir(pieceTeam, includesPrime(start), oneForward)),
                     occupiedByTeam)

pawnForward(start, occupiedByTeam, pieceTeam) ==
  singleForward(start, edge(start, pawnForwardDir(pieceTeam, includesPrime(start))),
                occupiedByTeam, pieceTeam)

\* The diagonal captures: around[i] is the square in direction dirs[i] (null: no edge).
capturesOver(acc, start, around, occupiedByTeam, pieceTeam, enPassantSquare) ==
  LET enemyOn(sq) == sq \in DOMAIN occupiedByTeam /\ occupiedByTeam[sq] # pieceTeam
      enPassantTargetSquare ==
        charAt(enPassantSquare, 0) \o charAt(start, 1) \o layerSuffix(includesPrime(start))
      takes(sq) ==
        /\ sq # null
        /\ \/ enemyOn(sq)
           \/ /\ enPassantSquare # null
              /\ sq = enPassantSquare
              /\ enemyOn(enPassantTargetSquare)
      dests == {around[i] : i \in {j \in DOMAIN around : takes(around[j])}}
  IN [moves |-> acc.moves \cup dests,
      paths |-> [d \in dests |-> <<start, d>>] @@ acc.paths]

squaresIn(start, dirs) == [i \in DOMAIN dirs |-> edge(start, dirs[i])]

pawnCaptures(acc, start, occupiedByTeam, pieceTeam, enPassantSquare) ==
  capturesOver(acc, start,
               squaresIn(start, IF pawnForwardDir(pieceTeam, includesPrime(start)) = "N"
                                THEN <<"NE", "NW">> ELSE <<"SE", "SW">>),
               occupiedByTeam, pieceTeam, enPassantSquare)

pawnWormholeCaptures(acc, start, occupiedByTeam, pieceTeam) ==
  IF \/ withoutPrime(start) \in INNER_LAYER_SQUARES
     \/ withoutPrime(start) \in OUTER_LAYER_SQUARES
  THEN capturesOver(acc, start, squaresIn(start, <<"idl", "idr", "odl", "odr">>),
                    occupiedByTeam, pieceTeam, null)
  ELSE acc

calculatePawnMoves(start, occupiedByTeam, pieceTeam, enPassantSquare) ==
  IF ~hasNode(start) THEN emptyResult
  ELSE pawnWormholeCaptures(
         pawnCaptures(pawnForward(start, occupiedByTeam, pieceTeam),
                      start, occupiedByTeam, pieceTeam, enPassantSquare),
         start, occupiedByTeam, pieceTeam)

(***************************************************************************)
(* The component state (useState) and what the timers hold.                *)
(***************************************************************************)
VARIABLES
  piecePositions,     \* entries [id, pos] in insertion order
  selectedPiece,      \* piece id or null
  possibleMoves,      \* set of squares
  possibleMovePaths,  \* destination -> path
  currentTeam,        \* 1..4
  capturedPiece,      \* piece id or null; its 600 ms removal timer is pending while set
  enPassantSquare,    \* square or null
  hasMoved,           \* piece id -> boolean
  animatingPiece,     \* piece id or null
  moveHistory,        \* the move log
  timers,             \* pending 250 ms animation timers, in firing order
  movesComputedFor,   \* history: the piece possibleMoves was computed for, or null
  sandboxMode,        \* player variant: the Sandbox / Competitive switch
  pawnPositions,      \* player variant: entries [id, position, direction]
  pawnDirs,           \* player variant: [defined, dirs]: destination -> direction
  currentPlayer,      \* player variant: 1..4
  players,            \* player variant: the ids of the players menu, in order
  query,              \* move queries checked on their own: the arguments
  result,             \*   the MoveResult returned
  answered,           \*   whether the query has been evaluated
  pending             \*   the calls of the traversal still to run (its call stack)

playerVars == <<sandboxMode, pawnPositions, pawnDirs, currentPlayer, players>>

queryVars == <<query, result, answered, pending>>

vars ==
  <<piecePositions, selectedPiece, possibleMoves, possibleMovePaths, currentTeam,
    capturedPiece, enPassantSquare, hasMoved, animatingPiece, moveHistory, timers,
    movesComputedFor, playerVars, queryVars>>

\* Bound on the number of committed moves (the length of moveHistory).
MaxMoves == 4

\* The pieces and board squares the clicks of the checked runs are drawn from.
ClickablePieces ==
  {"team1-knight-g1", "team1-rook-h1", "team1-bishop-f1", "team1-king-e1",
   "team2-king-e8", "team3-rook-h1'", "team4-rook-h8'"}

ClickableSquares == {"e2", "g2", "h1", "h2'"}

\* Bound on the animation timers pending when the user clicks.
MaxPending == 0

userClicks == Len(timers) <= MaxPending

\* useState<Record<string, Direction>>(): undefined until a pawn is selected.
undefinedDirs == [defined |-> FALSE, dirs |-> <<>>]

\* useState([{ id: 1 }, { id: 2 }, { id: 3 }, { id: 4 }])
initialPlayers == <<1, 2, 3, 4>>

noQuery ==
  /\ query = [kind |-> "none"]
  /\ result = emptyResult
  /\ answered = FALSE
  /\ pending = <<>>

Init ==
  /\ piecePositions = initialPiecePositions
  /\ selectedPiece = null
  /\ possibleMoves = {}
  /\ possibleMovePaths = <<>>
  /\ currentTeam = 1
  /\ capturedPiece = null
  /\ enPassantSquare = null
  /\ hasMoved = <<>>
  /\ animatingPiece = null
  /\ moveHistory = <<>>
  /\ timers = <<>>
  /\ movesComputedFor = null
  /\ sandboxMode = FALSE
  /\ pawnPositions = <<>>
  /\ pawnDirs = undefinedDirs
  /\ currentPlayer = 1
  /\ players = initialPlayers
  /\ noQuery

\* The queen's result: the union of the moves, { ...orthoResult.paths, ...diagResult.paths }.
queenResult(orthoResult, diagResult) ==
  [moves |-> orthoResult.moves \cup diagResult.moves,
   paths |-> diagResult.paths @@ orthoResult.paths]

\* The branch of handlePieceClick that picks the move query by piece word.
movesOver(pieceId, notation, positions, occupiedByTeam, team, flags, epSquare, scheme) ==
  IF idIncludes(pieceId, "rook") THEN calculateOrthogonalMoves(notation, occupiedByTeam, team)
  ELSE IF idIncludes(pieceId, "bishop")
  THEN calculateDiagonalMoves(notation, occupiedByTeam, team)
  ELSE IF idIncludes(pieceId, "queen")
  THEN queenResult(calculateOrthogonalMoves(notation, occupiedByTeam, team),
                   calculateDiagonalMoves(notation, occupiedByTeam, team))
  ELSE IF idIncludes(pieceId, "king")
  THEN calculateKingMoves(notation, positions, occupiedByTeam, team, flags, scheme)
  ELSE IF idIncludes(pieceId, "pawn")
  THEN calculatePawnMoves(notation, occupiedByTeam, team, epSquare)
  ELSE IF idIncludes(pieceId, "knight")
  THEN calculateKnightMoves(notation, occupiedByTeam, team)
  ELSE emptyResult

movesOfPiece(pieceId, notation, positions, team, flags, epSquare) ==
  movesOver(pieceId, notation, positions, occupiedByTeamOf(positions), team, flags, epSquare,
            "team")

\* setPossibleMoves(moves); setPossibleMovePaths(paths)
showMoves(found) ==
  /\ possibleMoves' = found.moves
  /\ possibleMovePaths' = found.paths

handlePieceClick(pieceId) ==
  /\ hasKey(piecePositions, pieceId)
  /\ IF selectedPiece = pieceId
     THEN /\ selectedPiece' = null
          /\ possibleMoves' = {}
          /\ possibleMovePaths' = <<>>
          /\ movesComputedFor' = null
     ELSE IF getTeamFromId(pieceId) # currentTeam
     THEN /\ selectedPiece' = pieceId
          /\ UNCHANGED <<possibleMoves, possibleMovePaths, movesComputedFor>>
     ELSE /\ selectedPiece' = pieceId
          /\ showMoves(movesOfPiece(pieceId, lookup(piecePositions, pieceId), piecePositions,
                                    getTeamFromId(pieceId), hasMoved, enPassantSquare))
          /\ movesComputedFor' = pieceId
  /\ UNCHANGED <<piecePositions, currentTeam, capturedPiece, enPassantSquare, hasMoved,
                 animatingPiece, moveHistory, timers, playerVars, queryVars>>

getNextTeam(team) ==
  IF team = 1 THEN 2 ELSE IF team = 2 THEN 3 ELSE IF team = 3 THEN 4 ELSE 1

\* One pass of the loop body of animatePieceAlongPath (i is 0-based): the updater
\* handed to setPiecePositions, and the piece it hands to setCapturedPiece (null: none).
animationStep(positions, pieceId, pathNotations, i) ==
  LET notation == pathNotations[i + 1]
      target == findEntry(positions, {j \in DOMAIN positions :
                                        positions[j].pos = notation /\ positions[j].id # pieceId})
  IN IF i = Len(pathNotations) - 1 /\ target # 0
     THEN [positions |-> setKey(deleteKey(positions, positions[target].id),
                                pieceId, notation),
           captured |-> positions[target].id]
     ELSE [positions |-> setKey(positions, pieceId, notation), captured |-> null]

\* A pending timer of animatePieceAlongPath: the next loop index, and the castling
\* rook animation chained behind the promise.
timer(pieceId, pathNotations, i, castlingRookId, castlingRookPath) ==
  [pieceId |-> pieceId, pathNotations |-> pathNotations, i |-> i,
   castlingRookId |-> castlingRookId, castlingRookPath |-> castlingRookPath]

\* The rook the castling detection of handleSquareClick finds, null if none.
castlingRookOf(positions, pieceId, fromSquare, notation, team, scheme) ==
  LET rank == IF team = 1 THEN "1" ELSE IF team = 2 THEN "8" ELSE ""
      rankSuffix == layerSuffix(includesPrime(notation))
      rookSquare == IF charAt(notation, 0) = "g" THEN "h" \o rank \o rankSuffix
                    ELSE "a" \o rank \o rankSuffix
      rookDestination == IF charAt(notation, 0) = "g" THEN "f" \o rank \o rankSuffix
                         ELSE "d" \o rank \o rankSuffix
      rookId == castlingRookAt(positions, rookSquare, team, scheme)
  IN IF /\ idIncludes(pieceId, "king")
        /\ Abs(charCode[charAt(fromSquare, 0)] - charCode[charAt(notation, 0)]) = 2
        /\ charAt(notation, 0) \in {"g", "c"}
        /\ rookId # null
     THEN [id |-> rookId, path |-> <<rookSquare, rookDestination>>]
     ELSE [id |-> null, path |-> <<>>]

\* The end of handleSquareClick for a move that is animated: the state updates, the
\* first loop pass of the animation, and the move log entry.
commitMove(notation, pathNotations, castling) ==
  LET first == animationStep(piecePositions, selectedPiece, pathNotations, 0)
  IN /\ animatingPiece' = selectedPiece
     /\ selectedPiece' = null
     /\ possibleMoves' = {}
     /\ movesComputedFor' = null
     /\ currentTeam' = getNextTeam(currentTeam)
     /\ piecePositions' = first.positions
     /\ capturedPiece' = IF first.captured # null THEN first.captured ELSE capturedPiece
     /\ timers' = Append(timers, timer(selectedPiece, pathNotations, 1,
                                       castling.id, castling.path))
     /\ moveHistory' =
          Append(moveHistory,
                 [moveNumber |-> Len(moveHistory) + 1,
                  piece |-> selectedPiece,
                  from |-> lookup(piecePositions, selectedPiece),
                  to |-> pathNotations[Len(pathNotations)],
                  captured |-> capturedPiece,
                  isWormholeMove |-> includesPrime(pathNotations[1])
                                       # includesPrime(pathNotations[Len(pathNotations)]),
                  isCastling |-> castling.id # null])
     /\ UNCHANGED <<possibleMovePaths, hasMoved>>

handleSquareClick(notation) ==
  /\ UNCHANGED <<playerVars, queryVars>>
  /\ selectedPiece # null
  /\ notation \in possibleMoves
  /\ notation \in DOMAIN possibleMovePaths
  /\ LET pathNotations == possibleMovePaths[notation]
         team == getTeamFromId(selectedPiece)
         fromSquare == lookup(piecePositions, selectedPiece)
         startRank == charAt(fromSquare, 1)
         endRank == charAt(notation, 1)
         epRank == IF team = 1 THEN "3" ELSE IF team = 2 THEN "6" ELSE ""
         epSquare == IF epRank # ""
                     THEN charAt(notation, 0) \o epRank \o layerSuffix(includesPrime(notation))
                     ELSE null
         isPromotion == \/ team = 1 /\ endRank = "8"
                        \/ team = 2 /\ endRank = "1"
                        \/ team = 3 /\ charAt(notation, 0) = "g"
                        \/ team = 4 /\ charAt(notation, 0) = "b"
     IN IF idIncludes(selectedPiece, "pawn")
        THEN \* piecePositions[selectedPiece][1] throws when the pawn is gone
             /\ fromSquare # null
             /\ enPassantSquare' =
                  IF Abs(parseInt(endRank) - parseInt(startRank)) = 2 THEN epSquare ELSE null
             /\ IF isPromotion
                THEN \E now \in 1..MaxStamp :
                       /\ piecePositions' = setKey(deleteKey(piecePositions, selectedPiece),
                                                   promotedId(team, now), notation)
                       /\ selectedPiece' = null
                       /\ possibleMoves' = {}
                       /\ movesComputedFor' = null
                       /\ UNCHANGED <<possibleMovePaths, currentTeam, capturedPiece, hasMoved,
                                      animatingPiece, moveHistory, timers>>
                ELSE commitMove(notation, pathNotations, [id |-> null, path |-> <<>>])
        ELSE IF idIncludes(selectedPiece, "king") /\ fromSquare = null
        THEN \* fromSquare.charCodeAt throws after setEnPassantSquare(null)
             /\ enPassantSquare' = null
             /\ UNCHANGED <<piecePositions, selectedPiece, possibleMoves, possibleMovePaths,
                            currentTeam, capturedPiece, hasMoved, animatingPiece,
                            moveHistory, timers, movesComputedFor>>
        ELSE /\ enPassantSquare' = null
             /\ commitMove(notation, pathNotations,
                           castlingRookOf(piecePositions, selectedPiece, fromSquare,
                                          notation, team, "team"))

\* A 250 ms timer of an animation fires: the next loop pass, or the end of the loop,
\* which resolves the promise and starts the chained rook animation.
animationTimerFires ==
  /\ timers # <<>>
  /\ LET t == Head(timers)
         pass == animationStep(piecePositions, t.pieceId, t.pathNotations, t.i)
         rookPass == animationStep(piecePositions, t.castlingRookId, t.castlingRookPath, 0)
     IN IF t.i < Len(t.pathNotations)
        THEN /\ piecePositions' = pass.positions
             /\ capturedPiece' = IF pass.captured # null THEN pass.captured ELSE capturedPiece
             /\ timers' = Append(Tail(timers), [t EXCEPT !.i = @ + 1])
             /\ UNCHANGED animatingPiece
        ELSE /\ animatingPiece' = null
             /\ IF t.castlingRookId # null /\ Len(t.castlingRookPath) > 0
                THEN /\ piecePositions' = rookPass.positions
                     /\ capturedPiece' = IF rookPass.captured # null
                                         THEN rookPass.captured ELSE capturedPiece
                     /\ timers' = Append(Tail(timers),
                                         timer(t.castlingRookId, t.castlingRookPath, 1,
                                               null, <<>>))
                ELSE /\ timers' = Tail(timers)
                     /\ UNCHANGED <<piecePositions, capturedPiece>>
  /\ UNCHANGED <<selectedPiece, possibleMoves, possibleMovePaths, currentTeam,
                 enPassantSquare, hasMoved, moveHistory, movesComputedFor, playerVars,
                 queryVars>>

\* The 600 ms timer of the capturedPiece effect fires.
capturedPieceTimeout ==
  /\ capturedPiece # null
  /\ piecePositions' = deleteKey(piecePositions, capturedPiece)
  /\ capturedPiece' = null
  /\ UNCHANGED <<selectedPiece, possibleMoves, possibleMovePaths, currentTeam,
                 enPassantSquare, hasMoved, animatingPiece, moveHistory, timers,
                 movesComputedFor, playerVars, queryVars>>

Next ==
  \/ \E pieceId \in ClickablePieces : userClicks /\ handlePieceClick(pieceId)
  \/ \E notation \in ClickableSquares :
       userClicks /\ Len(moveHistory) < MaxMoves /\ handleSquareClick(notation)
  \/ animationTimerFires
  \/ capturedPieceTimeout

Spec == Init /\ [][Next]_vars


(***************************************************************************)
(* The scene with players: pawns are kept in pawnPositions with their      *)
(* direction of travel, and a sandbox switch lets any player move at any   *)
(* time.  The sliding, knight and king queries are the ones above, asked   *)
(* with the squares of pieces and pawns together.                          *)
(***************************************************************************)
pawnMoveDirs ==
  "c3" :>
       ("N" :> <<"N", "in", "cw">>
        @@ "S" :> <<"S", "ccw", "E">>
        @@ "ccw" :> <<"S", "ccw", "E">>
        @@ "E" :> <<"E", "in", "ccw">>
        @@ "W" :> <<"W", "N", "cw">>
        @@ "cw" :> <<"W", "N", "cw">>
        @@ "out" :> <<"W", "S">>)
  @@ "c6" :>
       ("N" :> <<"N", "E", "cw">>
        @@ "cw" :> <<"N", "E", "cw">>
        @@ "S" :> <<"S", "in">>
        @@ "E" :> <<"E", "cw", "in">>
        @@ "W" :> <<"W", "ccw", "S">>
        @@ "ccw" :> <<"W", "ccw", "S">>
        @@ "out" :> <<"N", "W">>)
  @@ "f3" :>
       ("N" :> <<"N", "ccw", "in">>
        @@ "S" :> <<"S", "ccw", "W">>
        @@ "cw" :> <<"S", "cw", "W">>
        @@ "E" :> <<"E", "N", "ccw">>
        @@ "ccw" :> <<"E", "N", "ccw">>
        @@ "W" :> <<"W", "in">>
        @@ "out" :> <<"E", "S">>)
  @@ "f6" :>
       ("N" :> <<"N", "ccw", "W">>
        @@ "S" :> <<"S", "cw", "in">>
        @@ "E" :> <<"E", "S", "cw">>
        @@ "W" :> <<"W", "in">>
        @@ "cw" :> <<"E", "cw", "S">>
        @@ "ccw" :> <<"ccw", "N", "W">>
        @@ "out" :> <<"N", "E">>)
  @@ "c3'" :>
       ("N" :> <<"N", "in", "ccw">>
        @@ "S" :> <<"S", "cw", "E">>
        @@ "ccw" :> <<"N", "ccw", "W">>
        @@ "E" :> <<"E", "in", "cw">>
        @@ "W" :> <<"W", "N", "ccw">>
        @@ "cw" :> <<"E", "S", "cw">>
        @@ "out" :> <<"W", "S">>)
  @@ "c6'" :>
       ("N" :> <<"N", "E", "ccw">>
        @@ "cw" :> <<"S", "W", "cw">>
        @@ "S" :> <<"S", "in">>
        @@ "E" :> <<"E", "ccw", "in">>
        @@ "W" :> <<"W", "cw", "S">>
        @@ "ccw" :> <<"E", "ccw", "N">>
        @@ "out" :> <<"N", "W">>)
  @@ "f3'" :>
       ("N" :> <<"N", "cw", "in">>
        @@ "S" :> <<"S", "ccw", "W">>
        @@ "cw" :> <<"E", "cw", "N">>
        @@ "E" :> <<"E", "N", "cw">>
        @@ "ccw" :> <<"W", "S", "ccw">>
        @@ "W" :> <<"W", "N", "cw">>
        @@ "out" :> <<"E", "S">>)
  @@ "f6'" :>
       ("N" :> <<"N", "cw", "W">>
        @@ "S" :> <<"S", "ccw", "in">>
        @@ "E" :> <<"E", "S", "ccw">>
        @@ "W" :> <<"W", "in", "cw">>
        @@ "cw" :> <<"W", "cw", "N">>
        @@ "ccw" :> <<"ccw", "S", "E">>
        @@ "out" :> <<"N", "E">>)

hasPawn(pawns, id) == \E i \in DOMAIN pawns : pawns[i].id = id

\* pawns[id]: the entry of the pawn.
pawnOf(pawns, id) == pawns[CHOOSE i \in DOMAIN pawns : pawns[i].id = id]

\* newPositions[pieceId] = { position, direction }
setPawn(pawns, id, position, direction) ==
  [i \in DOMAIN pawns |->
     IF pawns[i].id = id
     THEN [id |-> id, position |-> position, direction |-> direction]
     ELSE pawns[i]]

pawnEntries(pawns) == [i \in DOMAIN pawns |-> [id |-> pawns[i].id, pos |-> pawns[i].position]]

\* Object.fromEntries([...pieces, ...pawns]) labelled with getPlayerFromPieceId.
occupiedSquaresOf(positions, pawns) ==
  fromEntries(positions \o pawnEntries(pawns), "player")

emptyPawnResult == [moves |-> {}, paths |-> <<>>, dirs |-> <<>>, threw |-> FALSE]

\* `for (let d of pawnMoveDirs[start][dir])` with no such key: a TypeError.
pawnThrows == [moves |-> {}, paths |-> <<>>, dirs |-> <<>>, threw |-> TRUE]

addPawnMove(acc, next, newPath, dir) ==
  [moves |-> acc.moves \cup {next},
   paths |-> (next :> newPath) @@ acc.paths,
   dirs |-> (next :> dir) @@ acc.dirs,
   threw |-> acc.threw]

isFirstMove(start, player) ==
  \/ player = 1 /\ charAt(start, 1) = "2" /\ ~includesPrime(start)
  \/ player = 2 /\ charAt(start, 1) = "7" /\ ~includesPrime(start)
  \/ player = 3 /\ charAt(start, 1) = "2" /\ includesPrime(start)
  \/ player = 4 /\ charAt(start, 1) = "7" /\ includesPrime(start)

pawnPentagons == {"c3", "c6", "f3", "f6", "c3'", "c6'", "f3'", "f6'"}

\* traverse(square, dir) from a square that is not the start.
traverseOn(acc, square, next, dir, occupiedSquares) ==
  IF next = null \/ next \in DOMAIN occupiedSquares THEN acc
  ELSE addPawnMove(acc, next, <<square, next>>, dir)

traverseSecond(acc, square, dir, occupiedSquares) ==
  traverseOn(acc, square, edge(square, dir), dir, occupiedSquares)

\* traverse(start, dir)
traverseFirst(next, dir, occupiedSquares) ==
  IF next = null \/ next \in DOMAIN occupiedSquares THEN emptyPawnResult
  ELSE addPawnMove(
         traverseSecond(
           IF next \in pawnPentagons
           THEN traverseSecond(emptyPawnResult, next, "in", occupiedSquares)
           ELSE emptyPawnResult,
           next, dir, occupiedSquares),
         next, <<next>>, dir)

\* One pass of `for (let d of pawnMoveDirs[start][dir])`.
pentagonPass(acc, next, d, occupiedSquares) ==
  IF next # null /\ next \notin DOMAIN occupiedSquares
  THEN addPawnMove(acc, next, <<next>>, d)
  ELSE acc

pentagonStep(acc, start, list, i, occupiedSquares) ==
  IF i \in DOMAIN list
  THEN pentagonPass(acc, edge(start, list[i]), list[i], occupiedSquares)
  ELSE acc

pentagonMoves(start, list, occupiedSquares) ==
  pentagonStep(
    pentagonStep(pentagonStep(emptyPawnResult, start, list, 1, occupiedSquares),
                 start, list, 2, occupiedSquares),
    start, list, 3, occupiedSquares)

plainMove(start, next, dir, occupiedSquares) ==
  IF next # null /\ next \notin DOMAIN occupiedSquares
  THEN addPawnMove(emptyPawnResult, next, <<next>>,
                   IF includesPrime(next) # includesPrime(start) THEN "out" ELSE dir)
  ELSE emptyPawnResult

\* calculatePawnMoves(start, player, dir) of the scene with players.
calculatePawnMovesIn(start, player, dir, occupiedSquares) ==
  IF ~hasNode(start) THEN emptyPawnResult
  ELSE IF isFirstMove(start, player)
  THEN traverseFirst(edge(start, dir), dir, occupiedSquares)
  ELSE IF start \in DOMAIN pawnMoveDirs
  THEN (IF dir \in DOMAIN pawnMoveDirs[start]
        THEN pentagonMoves(start, pawnMoveDirs[start][dir], occupiedSquares)
        ELSE pawnThrows)
  ELSE plainMove(start, edge(start, dir), dir, occupiedSquares)

getNextPlayer(player) ==
  IF player = 1 THEN 2 ELSE IF player = 2 THEN 3 ELSE IF player = 3 THEN 4 ELSE 1

\* The pieces and pawns the scene renders, each with its onClick.
rendered(pieceId) == hasKey(piecePositions, pieceId) \/ hasPawn(pawnPositions, pieceId)

\* The notation prop of a rendered piece or pawn.
notationOf(pieceId) ==
  IF hasKey(piecePositions, pieceId) THEN lookup(piecePositions, pieceId)
  ELSE pawnOf(pawnPositions, pieceId).position

showPawnMoves(pieceId, found) ==
  IF found.threw
  THEN UNCHANGED <<possibleMoves, possibleMovePaths, pawnDirs, movesComputedFor>>
  ELSE /\ showMoves(found)
       /\ pawnDirs' = [defined |-> TRUE, dirs |-> found.dirs]
       /\ movesComputedFor' = pieceId

selectFor(pieceId, notation, player, occupiedSquares) ==
  IF idIncludes(pieceId, "pawn")
  THEN showPawnMoves(
         pieceId,
         calculatePawnMovesIn(notation, player, pawnOf(pawnPositions, pieceId).direction,
                              occupiedSquares))
  ELSE /\ showMoves(movesOver(pieceId, notation, piecePositions, occupiedSquares, player,
                              hasMoved, enPassantSquare, "player"))
       /\ movesComputedFor' = pieceId
       /\ UNCHANGED pawnDirs

handlePieceClickOfPlayers(pieceId) ==
  /\ rendered(pieceId)
  /\ IF selectedPiece = pieceId
     THEN /\ selectedPiece' = null
          /\ possibleMoves' = {}
          /\ possibleMovePaths' = <<>>
          /\ movesComputedFor' = null
          /\ UNCHANGED <<pawnDirs, currentPlayer>>
     ELSE IF getPlayerFromPieceId(pieceId) # currentPlayer /\ ~sandboxMode
     THEN /\ selectedPiece' = pieceId
          /\ UNCHANGED <<possibleMoves, possibleMovePaths, movesComputedFor, pawnDirs,
                         currentPlayer>>
     ELSE /\ selectedPiece' = pieceId
          /\ currentPlayer' = IF sandboxMode THEN getPlayerFromPieceId(pieceId)
                              ELSE currentPlayer
          /\ selectFor(pieceId, notationOf(pieceId), getPlayerFromPieceId(pieceId),
                       occupiedSquaresOf(piecePositions, pawnPositions))
  /\ UNCHANGED <<piecePositions, currentTeam, capturedPiece, enPassantSquare, hasMoved,
                 animatingPiece, moveHistory, timers, sandboxMode, pawnPositions, players,
                 queryVars>>

\* The direction a pawn's animation pass writes: the pawnDirs of the render the
\* move was committed in, undefined (null) for a square it has no entry for.
passDirection(dirs, notation, previous) ==
  IF dirs.defined
  THEN (IF notation \in DOMAIN dirs.dirs THEN dirs.dirs[notation] ELSE null)
  ELSE previous

timerOfPlayers(pieceId, pathNotations, i, castlingRookId, castlingRookPath, dirs) ==
  [pieceId |-> pieceId, pathNotations |-> pathNotations, i |-> i,
   castlingRookId |-> castlingRookId, castlingRookPath |-> castlingRookPath,
   pawnDirs |-> dirs]

\* One pass of the loop body of animatePieceAlongPath (i is 0-based).
animationPass(pieceId, pathNotations, i, dirs) ==
  IF getPieceFromId(pieceId) = "pawn"
  THEN /\ pawnPositions' =
            setPawn(pawnPositions, pieceId, pathNotations[i + 1],
                    passDirection(dirs, pathNotations[i + 1],
                                  pawnOf(pawnPositions, pieceId).direction))
       /\ UNCHANGED <<piecePositions, capturedPiece>>
  ELSE /\ piecePositions' = animationStep(piecePositions, pieceId, pathNotations, i).positions
       /\ capturedPiece' =
            IF animationStep(piecePositions, pieceId, pathNotations, i).captured # null
            THEN animationStep(piecePositions, pieceId, pathNotations, i).captured
            ELSE capturedPiece
       /\ UNCHANGED pawnPositions

fromSquareOf(pieceId) ==
  IF idIncludes(pieceId, "pawn") THEN pawnOf(pawnPositions, pieceId).position
  ELSE lookup(piecePositions, pieceId)

commitMoveOfPlayers(pathNotations, fromSquare, castling) ==
  /\ animatingPiece' = selectedPiece
  /\ selectedPiece' = null
  /\ possibleMoves' = {}
  /\ movesComputedFor' = null
  /\ currentPlayer' = IF ~sandboxMode THEN getNextPlayer(currentPlayer) ELSE currentPlayer
  /\ animationPass(selectedPiece, pathNotations, 0, pawnDirs)
  /\ timers' = Append(timers, timerOfPlayers(selectedPiece, pathNotations, 1,
                                             castling.id, castling.path, pawnDirs))
  /\ moveHistory' =
       Append(moveHistory,
              [moveNumber |-> Len(moveHistory) + 1,
               piece |-> selectedPiece,
               from |-> fromSquare,
               to |-> pathNotations[Len(pathNotations)],
               captured |-> capturedPiece,
               isWormholeMove |-> includesPrime(pathNotations[1])
                                    # includesPrime(pathNotations[Len(pathNotations)]),
               isCastling |-> castling.id # null])

handleSquareClickOfPlayers(notation) ==
  /\ selectedPiece # null
  /\ notation \in possibleMoves
  /\ notation \in DOMAIN possibleMovePaths
  /\ idIncludes(selectedPiece, "pawn") => hasPawn(pawnPositions, selectedPiece)
  \* fromSquare.charCodeAt throws for a king that is off the board
  /\ idIncludes(selectedPiece, "king") => fromSquareOf(selectedPiece) # null
  /\ commitMoveOfPlayers(possibleMovePaths[notation], fromSquareOf(selectedPiece),
                         castlingRookOf(piecePositions, selectedPiece,
                                        fromSquareOf(selectedPiece), notation,
                                        getPlayerFromPieceId(selectedPiece),
                                        "player"))
  /\ UNCHANGED <<possibleMovePaths, currentTeam, enPassantSquare, hasMoved, sandboxMode,
                 pawnDirs, players, queryVars>>

animationTimerFiresOfPlayers ==
  /\ timers # <<>>
  /\ LET t == Head(timers)
     IN IF t.i < Len(t.pathNotations)
        THEN /\ animationPass(t.pieceId, t.pathNotations, t.i, t.pawnDirs)
             /\ timers' = Append(Tail(timers), [t EXCEPT !.i = @ + 1])
             /\ UNCHANGED animatingPiece
        ELSE /\ animatingPiece' = null
             /\ IF t.castlingRookId # null /\ Len(t.castlingRookPath) > 0
                THEN /\ animationPass(t.castlingRookId, t.castlingRookPath, 0, t.pawnDirs)
                     /\ timers' = Append(Tail(timers),
                                         timerOfPlayers(t.castlingRookId, t.castlingRookPath,
                                                        1, null, <<>>, t.pawnDirs))
                ELSE /\ timers' = Tail(timers)
                     /\ UNCHANGED <<piecePositions, capturedPiece, pawnPositions>>
  /\ UNCHANGED <<selectedPiece, possibleMoves, possibleMovePaths, currentTeam,
                 enPassantSquare, hasMoved, moveHistory, movesComputedFor, sandboxMode,
                 pawnDirs, currentPlayer, players, queryVars>>

\* onChange of the Sandbox checkbox: setSandboxMode(e.target.checked)
setSandboxMode ==
  /\ sandboxMode' = ~sandboxMode
  /\ UNCHANGED <<piecePositions, selectedPiece, possibleMoves, possibleMovePaths, currentTeam,
                 capturedPiece, enPassantSquare, hasMoved, animatingPiece, moveHistory,
                 timers, movesComputedFor, pawnPositions, pawnDirs, currentPlayer, players,
                 queryVars>>

PlayerClickablePieces == {"player1-knight-b1", "player2-pawn-a7"}

PlayerClickableSquares == {"c3", "b5", "c7", "a8", "a6", "a5"}

InitOfPlayers ==
  /\ piecePositions = DEFAULT_PIECE_POSITIONS
  /\ selectedPiece = null
  /\ possibleMoves = {}
  /\ possibleMovePaths = <<>>
  /\ currentTeam = 1
  /\ capturedPiece = null
  /\ enPassantSquare = null
  /\ hasMoved = <<>>
  /\ animatingPiece = null
  /\ moveHistory = <<>>
  /\ timers = <<>>
  /\ movesComputedFor = null
  /\ sandboxMode = FALSE
  /\ pawnPositions = DEFAULT_PAWN_POSITIONS
  /\ pawnDirs = undefinedDirs
  /\ currentPlayer = 1
  /\ players = initialPlayers
  /\ noQuery

NextOfPlayers ==
  \/ \E pieceId \in PlayerClickablePieces : userClicks /\ handlePieceClickOfPlayers(pieceId)
  \/ \E notation \in PlayerClickableSquares :
       userClicks /\ Len(moveHistory) < MaxMoves /\ handleSquareClickOfPlayers(notation)
  \/ userClicks /\ setSandboxMode
  \/ animationTimerFiresOfPlayers
  \/ capturedPieceTimeout

SpecOfPlayers == InitOfPlayers /\ [][NextOfPlayers]_vars

(***************************************************************************)
(* The players menu of the scene with players: a player is removed with    *)
(* all their pieces and pawns, an empty slot is filled again with the      *)
(* player's default pieces, and Reset Game puts the pieces of the players  *)
(* of the menu back on their default squares.                              *)
(***************************************************************************)
\* DEFAULT_PIECE_POSITIONS[n]
getDefaultPiecePositionsForPlayer(n) ==
  LET ofPlayer(entry) == getPlayerFromPieceId(entry.id) = n
  IN SelectSeq(DEFAULT_PIECE_POSITIONS, ofPlayer)

\* DEFAULT_PAWN_POSITIONS[n]
getDefaultPawnPositionsForPlayer(n) ==
  LET ofPlayer(entry) == getPlayerFromPieceId(entry.id) = n
  IN SelectSeq(DEFAULT_PAWN_POSITIONS, ofPlayer)

\* { ...pawns, [entry.id]: entry }: an existing key keeps its place, a new key is last.
putPawn(pawns, entry) ==
  IF hasPawn(pawns, entry.id)
  THEN setPawn(pawns, entry.id, entry.position, entry.direction)
  ELSE Append(pawns, entry)

RECURSIVE assignPieces(_, _)
\* Object.assign(target, source) and { ...target, ...source } on piece positions.
assignPieces(target, source) ==
  IF source = <<>> THEN target
  ELSE assignPieces(setKey(target, Head(source).id, Head(source).pos), Tail(source))

RECURSIVE assignPawns(_, _)
\* Object.assign(target, source) and { ...target, ...source } on pawn positions.
assignPawns(target, source) ==
  IF source = <<>> THEN target
  ELSE assignPawns(putPawn(target, Head(source)), Tail(source))

RECURSIVE defaultPiecesOf(_)
\* activePlayerIds.forEach(... Object.assign(newPiecePositions, ...)) from {}.
defaultPiecesOf(playerIds) ==
  IF playerIds = <<>> THEN <<>>
  ELSE assignPieces(defaultPiecesOf(SubSeq(playerIds, 1, Len(playerIds) - 1)),
                    getDefaultPiecePositionsForPlayer(playerIds[Len(playerIds)]))

RECURSIVE defaultPawnsOf(_)
\* activePlayerIds.forEach(... Object.assign(newPawnPositions, ...)) from {}.
defaultPawnsOf(playerIds) ==
  IF playerIds = <<>> THEN <<>>
  ELSE assignPawns(defaultPawnsOf(SubSeq(playerIds, 1, Len(playerIds) - 1)),
                   getDefaultPawnPositionsForPlayer(playerIds[Len(playerIds)]))

hasPlayer(id) == \E i \in DOMAIN players : players[i] = id

\* onClick of the remove button of a player of the menu.
removePlayer(id) ==
  /\ hasPlayer(id)
  /\ LET stays(p) == p # id
         keeps(entry) == getPlayerFromPieceId(entry.id) # id
     IN /\ players' = SelectSeq(players, stays)
        /\ piecePositions' = SelectSeq(piecePositions, keeps)
        /\ pawnPositions' = SelectSeq(pawnPositions, keeps)
  /\ UNCHANGED <<selectedPiece, possibleMoves, possibleMovePaths, currentTeam, capturedPiece,
                 enPassantSquare, hasMoved, animatingPiece, moveHistory, timers,
                 movesComputedFor, sandboxMode, pawnDirs, currentPlayer, queryVars>>

\* onClick of an empty slot of the menu.
addPlayer(slotNumber) ==
  /\ ~hasPlayer(slotNumber)
  /\ players' = Append(players, slotNumber)
  /\ piecePositions' =
       assignPieces(piecePositions, getDefaultPiecePositionsForPlayer(slotNumber))
  /\ pawnPositions' = assignPawns(pawnPositions, getDefaultPawnPositionsForPlayer(slotNumber))
  /\ UNCHANGED <<selectedPiece, possibleMoves, possibleMovePaths, currentTeam, capturedPiece,
                 enPassantSquare, hasMoved, animatingPiece, moveHistory, timers,
                 movesComputedFor, sandboxMode, pawnDirs, currentPlayer, queryVars>>

handleResetGame ==
  /\ piecePositions' = defaultPiecesOf(players)
  /\ pawnPositions' = defaultPawnsOf(players)
  /\ selectedPiece' = null
  /\ possibleMovePaths' = <<>>
  /\ possibleMoves' = {}
  /\ movesComputedFor' = null
  /\ moveHistory' = <<>>
  /\ UNCHANGED <<currentTeam, capturedPiece, enPassantSquare, hasMoved, animatingPiece,
                 timers, sandboxMode, pawnDirs, currentPlayer, players, queryVars>>

\* The slots of the menu the user adds and removes in the checked runs.
MenuSlots == {3}

\* The pieces and squares clicked in the runs with the menu: one piece of each player.
MenuClickablePieces ==
  {"player1-knight-b1", "player2-pawn-a7", "player3-knight-b1'", "player4-pawn-a7'"}

\* Bound on the committed moves between two resets in the runs with the menu.
MaxMenuMoves == 3

MenuClickableSquares == {"c3", "a6", "a5", "c3'", "a6'"}

\* The runs with the menu are played in competitive mode; no piece is captured in
\* them, so that no capturedPiece timeout is ever pending.
NextOfMenu ==
  \/ \E pieceId \in MenuClickablePieces : userClicks /\ handlePieceClickOfPlayers(pieceId)
  \/ \E notation \in MenuClickableSquares :
       userClicks /\ Len(moveHistory) < MaxMenuMoves /\ handleSquareClickOfPlayers(notation)
  \/ \E id \in MenuSlots : userClicks /\ removePlayer(id)
  \/ \E slotNumber \in MenuSlots : userClicks /\ addPlayer(slotNumber)
  \/ userClicks /\ handleResetGame
  \/ animationTimerFiresOfPlayers

SpecOfMenu == InitOfPlayers /\ [][NextOfMenu]_vars

(***************************************************************************)
(* The sliding queries on their own: calculateOrthogonalMoves for a rook,  *)
(* calculateDiagonalMoves for a bishop and both for a queen, asked for any *)
(* start square, team and occupancy of a family that labels the start      *)
(* square with every team or leaves it vacant.                             *)
(***************************************************************************)
boardSquares == DOMAIN boardGraph

SlidingPieces == {"team1-rook-a1", "team1-bishop-c1", "team1-queen-d1"}

\* A layout with pieces of teams 1 and 2 on and around the rings of both layers.
ringLayout ==
  "d3" :> 1 @@ "f4" :> 2 @@ "c6" :> 2 @@ "x2" :> 2 @@ "e5" :> 1 @@ "y4" :> 1
  @@ "c5'" :> 2 @@ "e3'" :> 1 @@ "f6'" :> 1 @@ "x3'" :> 1 @@ "d4'" :> 2 @@ "b2" :> 1
  @@ "g7'" :> 2

\* The occupancies without the start square: an empty board, the initial layout and
\* a layout with pieces on the rings.
SlidingLayouts == {<<>>, occupiedByTeamOf(initialPiecePositions), ringLayout}

SlidingQueries ==
  [kind : {"sliding"}, pieceId : SlidingPieces, start : boardSquares, team : 1..4,
   onStart : 0..4, others : SlidingLayouts]

\* The occupancy of a sliding query: onStart = 0 leaves the start square as it is in
\* the layout, another value labels it with that team.
slidingOccupancy(q) ==
  IF q.onStart = 0 THEN q.others ELSE (q.start :> q.onStart) @@ q.others

gameAtRest ==
  /\ piecePositions = initialPiecePositions
  /\ selectedPiece = null
  /\ possibleMoves = {}
  /\ possibleMovePaths = <<>>
  /\ currentTeam = 1
  /\ capturedPiece = null
  /\ enPassantSquare = null
  /\ hasMoved = <<>>
  /\ animatingPiece = null
  /\ moveHistory = <<>>
  /\ timers = <<>>
  /\ movesComputedFor = null
  /\ sandboxMode = FALSE
  /\ pawnPositions = <<>>
  /\ pawnDirs = undefinedDirs
  /\ currentPlayer = 1
  /\ players = initialPlayers

gameVars ==
  <<piecePositions, selectedPiece, possibleMoves, possibleMovePaths, currentTeam,
    capturedPiece, enPassantSquare, hasMoved, animatingPiece, moveHistory, timers,
    movesComputedFor, playerVars>>

InitSliding ==
  /\ gameAtRest
  /\ query \in SlidingQueries
  /\ result = emptyResult
  /\ answered = FALSE
  /\ pending = <<>>

askSliding ==
  /\ ~answered
  /\ result' = movesOver(query.pieceId, query.start, <<>>, slidingOccupancy(query),
                         query.team, <<>>, null, "team")
  /\ answered' = TRUE
  /\ UNCHANGED <<query, pending, gameVars>>

NextSliding == askSliding

SpecSliding == InitSliding /\ [][NextSliding]_vars

(***************************************************************************)
(* calculateKingMoves on its own, for a king of team 1 or 2 on its         *)
(* original square of either layer: what stands on the two corner squares, *)
(* which squares between are occupied, and the hasMoved flags, are drawn   *)
(* freely.                                                                 *)
(***************************************************************************)
castlingSides == {"kingside", "queenside"}

CornerContents == {"none", "rook", "enemyRook", "queen"}

homeRank(team) == IF team = 1 THEN "1" ELSE "8"

cornerFile(side) == IF side = "kingside" THEN "h" ELSE "a"

betweenFiles(side) == IF side = "kingside" THEN {"f", "g"} ELSE {"b", "c", "d"}

destinationFile(side) == IF side = "kingside" THEN "g" ELSE "c"

intermediateFile(side) == IF side = "kingside" THEN "f" ELSE "d"

KingQueries ==
  [kind : {"king"}, team : 1..2, prime : BOOLEAN, kingMoved : BOOLEAN,
   corner : [castlingSides -> CornerContents], rookMoved : [castlingSides -> BOOLEAN],
   blockers : SUBSET {"b", "c", "d", "f", "g"}]

\* The square of a file on the king's home rank and layer.
homeSquare(q, file) == file \o homeRank(q.team) \o layerSuffix(q.prime)

\* `team${n}-${word}-${file}${rank}`
idOf(team, word, file) ==
  "team" \o ToString(team) \o "-" \o word \o "-" \o file \o homeRank(team)

kingIdOf(q) == idOf(q.team, "king", "e")

rookIdOf(q, side) == idOf(q.team, "rook", cornerFile(side))

cornerEntry(q, side) ==
  IF q.corner[side] = "none" THEN <<>>
  ELSE <<[id |-> IF q.corner[side] = "rook" THEN rookIdOf(q, side)
                 ELSE IF q.corner[side] = "enemyRook"
                 THEN idOf(3 - q.team, "rook", cornerFile(side))
                 ELSE idOf(q.team, "queen", "d"),
          pos |-> homeSquare(q, cornerFile(side))]>>

\* The piece standing on a blocked between-square: own and enemy pieces by file.
blockerId(q, file) ==
  IF file = "b" THEN idOf(q.team, "knight", "b")
  ELSE IF file = "c" THEN idOf(3 - q.team, "bishop", "c")
  ELSE IF file = "d" THEN idOf(3 - q.team, "queen", "d")
  ELSE IF file = "f" THEN idOf(q.team, "bishop", "f")
  ELSE idOf(3 - q.team, "knight", "g")

blockerEntry(q, file) ==
  IF file \in q.blockers
  THEN <<[id |-> blockerId(q, file), pos |-> homeSquare(q, file)]>>
  ELSE <<>>

kingPositions(q) ==
  <<[id |-> kingIdOf(q), pos |-> homeSquare(q, "e")]>>
    \o cornerEntry(q, "kingside") \o cornerEntry(q, "queenside")
    \o blockerEntry(q, "b") \o blockerEntry(q, "c") \o blockerEntry(q, "d")
    \o blockerEntry(q, "f") \o blockerEntry(q, "g")

kingFlags(q) ==
  (kingIdOf(q) :> q.kingMoved)
    @@ (rookIdOf(q, "kingside") :> q.rookMoved["kingside"])
    @@ (rookIdOf(q, "queenside") :> q.rookMoved["queenside"])

InitCastling ==
  /\ gameAtRest
  /\ query \in KingQueries
  /\ result = emptyResult
  /\ answered = FALSE
  /\ pending = <<>>

askKing ==
  /\ ~answered
  /\ result' = movesOfPiece(kingIdOf(query), homeSquare(query, "e"), kingPositions(query),
                            query.team, kingFlags(query), null)
  /\ answered' = TRUE
  /\ UNCHANGED <<query, pending, gameVars>>

NextCastling == askKing

SpecCastling == InitCastling /\ [][NextCastling]_vars

(***************************************************************************)
(* calculateOrthogonalMoves call by call, for a rook on a ring square: the *)
(* pending calls of traverseLine are the call stack, one step runs the     *)
(* call on top of it, and the query returns once the stack is empty.       *)
(***************************************************************************)
ringStarts ==
  {s \in boardSquares : withoutPrime(s) \in OUTER_LAYER_SQUARES \cup INNER_LAYER_SQUARES}

TraversalQueries ==
  [kind : {"traversal"}, start : ringStarts, team : 1..2, onStart : 0..2,
   others : SlidingLayouts]

\* Bound on the length of the path a call may carry when it runs.
MaxPath == 24

\* The calls made by the loop over initialDirs.
initialCalls(start) ==
  [i \in 1..Len(orthogonalInitialDirs) |->
     call(start, orthogonalInitialDirs[i], {}, <<start>>)]

InitTraversal ==
  /\ gameAtRest
  /\ query \in TraversalQueries
  /\ result = emptyResult
  /\ answered = FALSE
  /\ pending = initialCalls(query.start)

traverseLineCall ==
  /\ ~answered
  /\ pending # <<>>
  /\ Len(Head(pending).pathsSoFar) <= MaxPath
  /\ result' = runCall("line", slidingOccupancy(query), query.team,
                       [acc |-> result, pending |-> pending]).acc
  /\ pending' = runCall("line", slidingOccupancy(query), query.team,
                        [acc |-> result, pending |-> pending]).pending
  /\ UNCHANGED <<query, answered, gameVars>>

returnOrthogonalMoves ==
  /\ ~answered
  /\ pending = <<>>
  /\ result' = deleteStart(result, query.start)
  /\ answered' = TRUE
  /\ UNCHANGED <<query, pending, gameVars>>

NextTraversal == traverseLineCall \/ returnOrthogonalMoves

\* A synchronous call runs to its end: the call on top of the stack is always run.
SpecTraversal == InitTraversal /\ [][NextTraversal]_vars /\ WF_vars(NextTraversal)

(***************************************************************************)
(* The handlers of the scene with teams on boards that carry pawns.  The   *)
(* layout the scene is constructed with has its pawn entries commented     *)
(* out, so the pawn branches of handlePieceClick and handleSquareClick are *)
(* run here from small positions with pawns of the four teams, named as    *)
(* the entries of the layout name them (`team1-pawn-a2`).                  *)
(***************************************************************************)
\* Pawns of teams 1 and 3 on their starting ranks, with an enemy pawn of the team
\* that moves next beside the square each of them passes over.
enPassantLayout ==
  <<[id |-> "team1-pawn-a2", pos |-> "a2"],
    [id |-> "team2-pawn-b7", pos |-> "b4"],
    [id |-> "team3-pawn-a2'", pos |-> "a2'"],
    [id |-> "team3-pawn-g2'", pos |-> "g2'"],
    [id |-> "team4-pawn-b7'", pos |-> "b4'"]>>

\* A pawn on the outer ring with an enemy pawn on the inner ring diagonally ahead.
ringPawnLayout ==
  <<[id |-> "team1-pawn-d2", pos |-> "d3"],
    [id |-> "team2-pawn-c7", pos |-> "x1"]>>

\* Pawns of teams 1 and 2 on the rings of the lower layer among other pieces.
lowerRingLayout ==
  <<[id |-> "team1-pawn-d2", pos |-> "d3'"],
    [id |-> "team2-pawn-c7", pos |-> "x1'"],
    [id |-> "team2-pawn-b7", pos |-> "c4'"],
    [id |-> "team2-knight-b8", pos |-> "x3'"],
    [id |-> "team1-pawn-a2", pos |-> "x4'"]>>

PawnLayouts == {enPassantLayout, ringPawnLayout, lowerRingLayout}

PawnClickablePieces ==
  {"team1-pawn-a2", "team2-pawn-b7", "team3-pawn-a2'", "team3-pawn-g2'", "team4-pawn-b7'",
   "team1-pawn-d2", "team2-pawn-c7"}

PawnClickableSquares == {"a3", "a4", "b3", "a3'", "a4'", "g3'", "b3'", "x1", "d4", "x1'", "x3'"}

InitPawns ==
  /\ piecePositions \in PawnLayouts
  /\ selectedPiece = null
  /\ possibleMoves = {}
  /\ possibleMovePaths = <<>>
  /\ currentTeam = 1
  /\ capturedPiece = null
  /\ enPassantSquare = null
  /\ hasMoved = <<>>
  /\ animatingPiece = null
  /\ moveHistory = <<>>
  /\ timers = <<>>
  /\ movesComputedFor = null
  /\ sandboxMode = FALSE
  /\ pawnPositions = <<>>
  /\ pawnDirs = undefinedDirs
  /\ currentPlayer = 1
  /\ players = initialPlayers
  /\ noQuery

NextPawns ==
  \/ \E pieceId \in PawnClickablePieces : userClicks /\ handlePieceClick(pieceId)
  \/ \E notation \in PawnClickableSquares :
       userClicks /\ Len(moveHistory) < MaxMoves /\ handleSquareClick(notation)
  \/ animationTimerFires
  \/ capturedPieceTimeout

SpecPawns == InitPawns /\ [][NextPawns]_vars

(***************************************************************************)
(* calculatePawnMoves on its own, in both scenes: asked for a pawn of any  *)
(* team on any square, then asked again from a square the pawn advanced to *)
(* (an empty destination of the previous answer), the pawn of the scene    *)
(* with players keeping the direction the answer gave for that square.     *)
(***************************************************************************)
boardFiles == {"a", "b", "c", "d", "e", "f", "g", "h"}

\* The rank and layer the initial layouts put the pawns of a team on.
pawnHomeRank(team) == IF team \in {1, 3} THEN 2 ELSE 7

pawnHomePrime(team) == team \in {3, 4}

pawnHome(team) ==
  {file \o ToString(pawnHomeRank(team)) \o layerSuffix(pawnHomePrime(team)) :
     file \in boardFiles}

\* The direction the initial pawnPositions give the pawns of a player.
pawnHomeDir(team) == IF team \in {1, 3} THEN "N" ELSE "S"

\* Pieces of the four teams beside and ahead of squares pawns pass over.
pawnLayout ==
  "a4" :> 1 @@ "c3" :> 2 @@ "c4" :> 2 @@ "b5" :> 1 @@ "h5" :> 2 @@ "g6" :> 3 @@ "e3" :> 4
  @@ "a4'" :> 3 @@ "c4'" :> 4 @@ "b5'" :> 3 @@ "h5'" :> 4 @@ "d3'" :> 1 @@ "e6'" :> 2

PawnOccupancies ==
  {<<>>, occupiedByTeamOf(initialPiecePositions), ringLayout, pawnLayout}

PawnEpSquares == {null, "a3", "b6", "a3'", "h6'"}

\* Bound on the number of advances a pawn query is repeated after.
MaxSteps == 8

TeamPawnQueries ==
  {q \in [kind : {"pawn"}, scheme : {"team"}, start : boardSquares, team : 1..4,
          dir : {"N", "S"}, others : PawnOccupancies, ep : PawnEpSquares,
          origin : boardSquares, steps : {0}] :
     /\ q.origin = q.start
     /\ q.dir = pawnForwardDir(q.team, includesPrime(q.start))
     /\ q.ep \notin DOMAIN q.others
     /\ q.ep # q.start}

PlayerPawnQueries ==
  {q \in [kind : {"pawn"}, scheme : {"player"}, start : boardSquares, team : 1..4,
          dir : {"N", "S"}, others : PawnOccupancies, ep : {null},
          origin : boardSquares, steps : {0}] :
     /\ q.origin = q.start
     /\ q.start \in pawnHome(q.team)
     /\ q.dir = pawnHomeDir(q.team)}

\* The occupancy of a pawn query: the layout with the pawn on its square.
pawnOccupancy(q) == (q.start :> q.team) @@ q.others

InitPawnQuery ==
  /\ gameAtRest
  /\ query \in TeamPawnQueries \cup PlayerPawnQueries
  /\ result = emptyResult
  /\ answered = FALSE
  /\ pending = <<>>

askPawn ==
  /\ ~answered
  /\ result' = IF query.scheme = "team"
               THEN calculatePawnMoves(query.start, pawnOccupancy(query), query.team, query.ep)
               ELSE calculatePawnMovesIn(query.start, query.team, query.dir,
                                         pawnOccupancy(query))
  /\ answered' = TRUE
  /\ UNCHANGED <<query, pending, gameVars>>

\* The pawn moves to an empty destination of the answer and is asked again there.
advancePawn ==
  /\ answered
  /\ query.steps < MaxSteps
  /\ \E d \in result.moves :
       /\ d \notin DOMAIN query.others
       /\ d # query.ep
       /\ query' = [query EXCEPT !.start = d,
                                 !.dir = IF query.scheme = "player" THEN result.dirs[d]
                                         ELSE pawnForwardDir(query.team, includesPrime(d)),
                                 !.ep = null,
                                 !.steps = @ + 1]
  /\ result' = emptyResult
  /\ answered' = FALSE
  /\ UNCHANGED <<pending, gameVars>>

NextPawnQuery == askPawn \/ advancePawn

SpecPawnQuery == InitPawnQuery /\ [][NextPawnQuery]_vars

(***************************************************************************)
(* calculateKnightMoves on its own, asked for any start square of the      *)
(* graph, a team, and an occupancy that leaves the start square to the     *)
(* knight.                                                                 *)
(***************************************************************************)
\* Own and enemy pieces next to the corners and around the rings, where they stand
\* on the first and second legs of many knight moves.
knightLayout ==
  "a2" :> 1 @@ "b1" :> 1 @@ "b2" :> 2 @@ "c3" :> 1 @@ "a3" :> 2 @@ "d4" :> 1
  @@ "x1" :> 2 @@ "e5" :> 1 @@ "f6" :> 2 @@ "g7" :> 1 @@ "h7" :> 2 @@ "f5" :> 1
  @@ "d4'" :> 1 @@ "y2'" :> 2 @@ "e4'" :> 2 @@ "c5'" :> 1 @@ "b7'" :> 2 @@ "g2'" :> 1

KnightLayouts == {<<>>, occupiedByTeamOf(initialPiecePositions), ringLayout, knightLayout}

KnightQueries ==
  [kind : {"knight"}, start : boardSquares, team : 1..2, others : KnightLayouts]

knightOccupancy(q) == (q.start :> q.team) @@ q.others

InitKnight ==
  /\ gameAtRest
  /\ query \in KnightQueries
  /\ result = emptyResult
  /\ answered = FALSE
  /\ pending = <<>>

askKnight ==
  /\ ~answered
  /\ result' = calculateKnightMoves(query.start, knightOccupancy(query), query.team)
  /\ answered' = TRUE
  /\ UNCHANGED <<query, pending, gameVars>>

NextKnight == askKnight

SpecKnight == InitKnight /\ [][NextKnight]_vars

(***************************************************************************)
(* calculateKingMoves for a king standing on any square of the graph: the  *)
(* king of a team is put on the start square of a layout of the other      *)
(* pieces, no piece having moved.                                          *)
(***************************************************************************)
\* Rooks on their corners with the squares between them and the king's square free,
\* and pieces of teams 1 and 2 next to the kings' squares and around the rings.
openLayout ==
  <<[id |-> "team1-rook-a1", pos |-> "a1"],
    [id |-> "team1-rook-h1", pos |-> "h1"],
    [id |-> "team1-knight-b1", pos |-> "d2"],
    [id |-> "team2-knight-b8", pos |-> "e2"],
    [id |-> "team2-rook-a8", pos |-> "a8"],
    [id |-> "team2-rook-h8", pos |-> "h8"],
    [id |-> "team1-bishop-c1", pos |-> "d7"],
    [id |-> "team2-bishop-c8", pos |-> "f7"],
    [id |-> "team1-queen-d1", pos |-> "x1"],
    [id |-> "team2-queen-d8", pos |-> "d4"],
    [id |-> "team1-bishop-f1", pos |-> "c4"],
    [id |-> "team2-bishop-f8", pos |-> "y3"],
    [id |-> "team3-rook-a1'", pos |-> "x2'"],
    [id |-> "team4-rook-a8'", pos |-> "e5'"],
    [id |-> "team3-queen-d1'", pos |-> "d3'"],
    [id |-> "team4-queen-d8'", pos |-> "y1'"]>>

KingLayouts == {<<>>, initialPiecePositions, openLayout}

kingOfTeam ==
  <<"team1-king-e1", "team2-king-e8", "team3-king-e1'", "team4-king-e8'">>

KingStepQueries == [kind : {"kingStep"}, start : boardSquares, team : 1..4, layout : KingLayouts]

\* The layout with the team's king on the start square, in place of what stood there.
withKingOn(layout, start, team) ==
  LET stays(entry) == entry.pos # start /\ entry.id # kingOfTeam[team]
  IN <<[id |-> kingOfTeam[team], pos |-> start]>> \o SelectSeq(layout, stays)

InitKingSteps ==
  /\ gameAtRest
  /\ query \in KingStepQueries
  /\ result = emptyResult
  /\ answered = FALSE
  /\ pending = <<>>

askKingSteps ==
  /\ ~answered
  /\ result' = movesOfPiece(kingOfTeam[query.team], query.start,
                            withKingOn(query.layout, query.start, query.team),
                            query.team, <<>>, null)
  /\ answered' = TRUE
  /\ UNCHANGED <<query, pending, gameVars>>

NextKingSteps == askKingSteps

SpecKingSteps == InitKingSteps /\ [][NextKingSteps]_vars

(***************************************************************************)
(* Decoding of square notation (CoordinateConversion): a notation is the   *)
(* sequence of its characters.  A decoder yields a value, null, or throws. *)
(***************************************************************************)
FILES == <<"a", "b", "c", "d", "e", "f", "g", "h">>
RANKS == <<"1", "2", "3", "4", "5", "6", "7", "8">>

value(v) == [kind |-> "value", value |-> v]
returnsNull == [kind |-> "null"]
throws(message) == [kind |-> "error", message |-> message]

\* Array.prototype.indexOf: the zero-based index of the element, -1 if absent.
indexOf(array, element) ==
  IF \E i \in DOMAIN array : array[i] = element
  THEN (CHOOSE i \in DOMAIN array : array[i] = element) - 1
  ELSE -1

\* chars[i] with i from 0: undefined beyond the end.
charOf(chars, i) == IF i + 1 \in DOMAIN chars THEN chars[i + 1] ELSE "undefined"

endsWith(chars, c) == chars # <<>> /\ chars[Len(chars)] = c

startsWith(chars, c) == chars # <<>> /\ chars[1] = c

\* notation.slice(0, -1)
sliceLast(chars) == SubSeq(chars, 1, Len(chars) - 1)

\* notation.replace("'", ""): the first prime only.
replacePrime(chars) ==
  IF \E i \in DOMAIN chars : chars[i] = "'"
  THEN LET i == CHOOSE j \in DOMAIN chars :
                  chars[j] = "'" /\ \A k \in 1..(j - 1) : chars[k] # "'"
       IN SubSeq(chars, 1, i - 1) \o SubSeq(chars, i + 1, Len(chars))
  ELSE chars

\* Array.prototype.includes over a list of square names.
includesSquare(squares, chars) == \E s \in squares : SquareChars[s] = chars

gridOf(notation, gridX, gridY, z) ==
  IF gridX = -1 \/ gridY = -1 THEN throws("Invalid chess notation")
  ELSE value(<<gridX, gridY, z>>)

cleanGrid(notation, cleanNotation) ==
  IF startsWith(cleanNotation, "x") \/ startsWith(cleanNotation, "y") THEN returnsNull
  ELSE gridOf(notation, indexOf(FILES, charOf(cleanNotation, 0)),
              indexOf(RANKS, charOf(cleanNotation, 1)),
              IF endsWith(notation, "'") THEN -27 ELSE 25)

chessToGrid(notation) ==
  cleanGrid(notation, IF endsWith(notation, "'") THEN sliceLast(notation) ELSE notation)

\* BOARD_MIN + grid * SPACING with SPACING = 170 / 7: coordinates in sevenths.
gridToWorld(gridX, gridY, z) == <<170 * gridX - 595, 170 * gridY - 595, 7 * z>>

\* getWormholeSquarePosition: a point of the torus for the square and plane; for a
\* square of the outer layer the grid coordinates are decoded first.
torusPoint(notation, baseZ) == value(<<"torus", notation, baseZ>>)

outerPosition(notation, baseZ, gridCoords) ==
  IF gridCoords.kind = "error" THEN gridCoords
  ELSE IF gridCoords.kind = "null" THEN value(<<0, 0, 7 * baseZ>>)
  ELSE torusPoint(notation, baseZ)

getWormholeSquarePosition(notation, baseZ) ==
  IF includesSquare(OUTER_LAYER_SQUARES, replacePrime(notation))
  THEN outerPosition(notation, baseZ, chessToGrid(notation))
  ELSE torusPoint(notation, baseZ)

worldOf(notation, gridCoords) ==
  IF gridCoords.kind = "error" THEN gridCoords
  ELSE IF gridCoords.kind = "null" THEN throws("Cannot convert to world coordinates")
  ELSE value(gridToWorld(gridCoords.value[1], gridCoords.value[2], gridCoords.value[3]))

chessToWorld(notation) ==
  IF \/ includesSquare(INNER_LAYER_SQUARES, replacePrime(notation))
     \/ includesSquare(OUTER_LAYER_SQUARES, replacePrime(notation))
  THEN getWormholeSquarePosition(notation, IF endsWith(notation, "'") THEN -25 ELSE 25)
  ELSE worldOf(notation, chessToGrid(notation))

\* The notations asked: every string of at most MaxLen characters over letters that
\* are files, a letter that is none, junction letters, digits inside and outside the
\* ranks and the junction indices, and the layer marker.
MaxLen == 4

NotationChars == {"a", "c", "i", "x", "y", "1", "3", "5", "9", "'"}

Notations == UNION {[1..n -> NotationChars] : n \in 0..MaxLen}

InitNotation ==
  /\ gameAtRest
  /\ query \in [kind : {"notation"}, notation : Notations]
  /\ result = emptyResult
  /\ answered = FALSE
  /\ pending = <<>>

decode ==
  /\ ~answered
  /\ result' = [grid |-> chessToGrid(query.notation), world |-> chessToWorld(query.notation)]
  /\ answered' = TRUE
  /\ UNCHANGED <<query, pending, gameVars>>

NextNotation == decode

SpecNotation == InitNotation /\ [][NextNotation]_vars

(***************************************************************************)
(* The scene with clicks while animations are still running: nothing in    *)
(* handlePieceClick or handleSquareClick waits for a pending animation, so *)
(* further moves can be committed while the 250 ms timers of earlier ones  *)
(* are outstanding.  The timers of the animations fire in the order they   *)
(* were set.  The user clicks pieces of the team to move only, so every    *)
(* move is made from moves computed for the piece that moves.              *)
(***************************************************************************)
\* Bound on the animations running when the user clicks.
MaxOverlap == 3

\* Bound on the moves of a run with overlapping animations.
MaxOverlapMoves == 5

OverlapClickablePieces ==
  {"team1-rook-h1", "team2-rook-h8", "team3-king-e1'", "team4-king-e8'"}

OverlapClickableSquares == {"h5", "h2", "h7", "e2'", "e7'", "g2"}

clicksDuringAnimation == Len(timers) <= MaxOverlap

NextOverlap ==
  \/ \E pieceId \in OverlapClickablePieces :
       /\ clicksDuringAnimation
       /\ getTeamFromId(pieceId) = currentTeam
       /\ handlePieceClick(pieceId)
  \/ \E notation \in OverlapClickableSquares :
       /\ clicksDuringAnimation
       /\ Len(moveHistory) < MaxOverlapMoves
       /\ handleSquareClick(notation)
  \/ animationTimerFires
  \/ capturedPieceTimeout

SpecOverlap == Init /\ [][NextOverlap]_vars

(***************************************************************************)
(* Properties of the click-driven executor.                                *)
(***************************************************************************)
\* A step of handleSquareClick that commits a move: it appends to the move log.
commits == Len(moveHistory') = Len(moveHistory) + 1

lastMove == moveHistory[Len(moveHistory)]

\* C1: a piece is moved only if it belongs to the team whose turn it is when the
\* move is committed: every commit is of a selected piece of the active team.
C1_OnlyActiveTeamMoves ==
  [][commits => getTeamFromId(selectedPiece) = currentTeam]_vars

\* C2: whenever handleSquareClick commits a move of piece P to square T, the
\* possible moves it tests T against are the ones computed for P itself.
C2_DestinationFromOwnMoveResult ==
  [][commits => movesComputedFor = selectedPiece]_vars

\* C3: in every reachable state, between animation steps included, no two
\* pieces stand on the same square.
C3_OnePiecePerSquare ==
  \A i, j \in DOMAIN piecePositions :
    i # j => piecePositions[i].pos # piecePositions[j].pos

\* C4: a committed move is applied as one atomic step: in no reachable state has
\* the turn passed on while the piece of the last committed move, still on the
\* board, is not on the final square of that move.
C4_MoveAppliedAtomically ==
  (moveHistory # <<>> /\ hasKey(piecePositions, lastMove.piece))
    => lookup(piecePositions, lastMove.piece) = lastMove.to

hasMadeMove(pieceId) == \E i \in DOMAIN moveHistory : moveHistory[i].piece = pieceId

\* The castling destinations among the moves shown for a king: the only king
\* paths of three squares.
castlingOffers ==
  IF movesComputedFor # null /\ idIncludes(movesComputedFor, "king")
  THEN {d \in possibleMoves : Len(possibleMovePaths[d]) = 3}
  ELSE {}

\* The rook a castling offer to destination d relies on.
rookOfOffer(d) ==
  castlingRookAt(piecePositions,
                 (IF charAt(d, 0) = "g" THEN "h" ELSE "a") \o charAt(d, 1)
                   \o layerSuffix(includesPrime(d)),
                 getTeamFromId(movesComputedFor), "team")

\* C7: once a king has made a move castling is never again offered to it, and
\* once a rook has made a move castling on its side is never again offered.
C7_MovedPieceNeverCastles ==
  \A d \in castlingOffers :
    /\ ~hasMadeMove(movesComputedFor)
    /\ ~hasMadeMove(rookOfOffer(d))

noAnimationPending == timers = <<>>

\* C9: after a castling move has been fully applied the king stands on the g- or
\* c-file square of its home rank and the castling rook next to it on the f- or
\* d-file, on the king's layer, with the rook's corner square empty.
C9_CastlingEndsOnCastledSquares ==
  (moveHistory # <<>> /\ lastMove.isCastling /\ noAnimationPending
     /\ hasKey(piecePositions, lastMove.piece))
    => LET king == lookup(piecePositions, lastMove.piece)
           team == getTeamFromId(lastMove.piece)
           layer == layerSuffix(includesPrime(king))
       IN /\ king \in {"g" \o homeRank(team) \o layer, "c" \o homeRank(team) \o layer}
          /\ \E i \in DOMAIN piecePositions :
               /\ idIncludes(piecePositions[i].id, "rook")
               /\ getTeamFromId(piecePositions[i].id) = team
               /\ piecePositions[i].pos =
                    (IF charAt(king, 0) = "g" THEN "f" ELSE "d") \o homeRank(team) \o layer
          /\ \A i \in DOMAIN piecePositions :
               piecePositions[i].pos #
                 (IF charAt(king, 0) = "g" THEN "h" ELSE "a") \o homeRank(team) \o layer

(***************************************************************************)
(* Properties of the scene with players.                                   *)
(***************************************************************************)
\* C5: every committed move advances the active player one step in the cycle
\* 1, 2, 3, 4, 1, and no other step (selecting a piece in particular) changes
\* the active player.
C5_TurnAdvancesExactlyOnCommit ==
  [][/\ commits => currentPlayer' = getNextPlayer(currentPlayer)
     /\ ~commits => currentPlayer' = currentPlayer]_vars

\* Everything standing on a square: the pieces and the pawns.
standingOn(square) ==
  {piecePositions[i].id : i \in {j \in DOMAIN piecePositions : piecePositions[j].pos = square}}
    \cup {pawnPositions[i].id :
            i \in {j \in DOMAIN pawnPositions : pawnPositions[j].position = square}}

\* C6: once the last committed move has been fully applied (no animation timer
\* and no capture removal pending), the moved piece is the only piece on its
\* destination square: whatever stood there has left the board.
C6_CapturedPieceLeavesBoard ==
  (moveHistory # <<>> /\ noAnimationPending /\ capturedPiece = null)
    => standingOn(lastMove.to) \subseteq {lastMove.piece}

(***************************************************************************)
(* Properties of the move queries.                                         *)
(***************************************************************************)
\* Castling on a side is due: king and corner rook unmoved, nothing between.
castlingDue(q, side) ==
  /\ ~q.kingMoved
  /\ q.corner[side] = "rook"
  /\ ~q.rookMoved[side]
  /\ betweenFiles(side) \cap q.blockers = {}

\* Castling on a side is barred: a between-square occupied, or no same-team
\* rook on the corner.
castlingBarred(q, side) ==
  \/ betweenFiles(side) \cap q.blockers # {}
  \/ q.corner[side] # "rook"

castlingOffered(q, r, side) ==
  /\ homeSquare(q, destinationFile(side)) \in r.moves
  /\ homeSquare(q, destinationFile(side)) \in DOMAIN r.paths
  /\ r.paths[homeSquare(q, destinationFile(side))] =
       <<homeSquare(q, "e"), homeSquare(q, intermediateFile(side)),
         homeSquare(q, destinationFile(side))>>

\* C8: for a king of team 1 or 2 on its original square, calculateKingMoves
\* offers the two-square castling destination, with the path through the
\* intermediate square, when king and corner rook are unmoved and the squares
\* between are empty; it does not offer that destination when a between-square
\* is occupied or the corner holds no rook of the team.
C8_CastlingOfferedWhenDue ==
  (answered /\ query.kind = "king")
    => \A side \in castlingSides :
         /\ castlingDue(query, side) => castlingOffered(query, result, side)
         /\ castlingBarred(query, side)
              => homeSquare(query, destinationFile(side)) \notin result.moves

\* A queenside castling that is due and offered, next to a barred kingside.
C8_Witness ==
  /\ answered
  /\ query.kind = "king"
  /\ castlingDue(query, "queenside")
  /\ castlingOffered(query, result, "queenside")
  /\ castlingBarred(query, "kingside")
  /\ homeSquare(query, "g") \notin result.moves

\* C10: the move set of a sliding query (rook, bishop, queen) never contains
\* the start square, whatever the start, team and occupancy.
C10_StartNeverInSlidingMoves ==
  (answered /\ query.kind = "sliding") => query.start \notin result.moves

\* A rook's query whose traversal came back to the start square through a ring
\* cycle (the start square has a path) and whose move set leaves it out.
C10_Witness ==
  /\ answered
  /\ query.kind = "sliding"
  /\ idIncludes(query.pieceId, "rook")
  /\ query.start \in DOMAIN result.paths
  /\ query.start \notin result.moves

\* C11: for a rook on any ring square and any occupancy, the orthogonal traversal
\* terminates: the call stack of traverseLine empties and the query returns a finite
\* move set, the one calculateOrthogonalMoves yields.
C11_RingTraversalTerminates ==
  <>(/\ answered
     /\ query.kind = "traversal"
     /\ IsFiniteSet(result.moves)
     /\ result = calculateOrthogonalMoves(query.start, slidingOccupancy(query), query.team))

\* A traversal from a ring square that went round the ring: it came back to its
\* start (the start has a path) and returned.
C11_Witness ==
  /\ answered
  /\ query.kind = "traversal"
  /\ query.start \in ringStarts
  /\ query.start \in DOMAIN result.paths
  /\ result.moves # {}

\* The squares strictly between the two ends of a path.
innerSquares(path) == {path[i] : i \in 2..(Len(path) - 1)}

\* The directions a sliding piece leaves its start by.
slidingDirs(pieceId) ==
  IF idIncludes(pieceId, "rook") THEN {"N", "S", "E", "W", "in", "out", "cw", "ccw"}
  ELSE IF idIncludes(pieceId, "bishop")
       THEN {"NE", "NW", "SE", "SW", "idl", "idr", "odl", "odr"}
  ELSE {"N", "S", "E", "W", "in", "out", "cw", "ccw",
        "NE", "NW", "SE", "SW", "idl", "idr", "odl", "odr"}

\* The squares one graph edge away from the start of a sliding query.
firstSquares(q) ==
  {edge(q.start, d) : d \in slidingDirs(q.pieceId)} \ {null}

\* C12: in every sliding query (rook, bishop, queen) no destination is a square held
\* by the mover's own team, every returned path runs over unoccupied squares only
\* between its ends (a line ends on the first occupied square), and an enemy piece
\* one edge away from the start is a destination (a capture).
C12_SlidingStopsAtPieces ==
  (answered /\ query.kind = "sliding")
    => /\ \A d \in result.moves :
            /\ d \in DOMAIN slidingOccupancy(query) => slidingOccupancy(query)[d] # query.team
            /\ d \in DOMAIN result.paths
            /\ innerSquares(result.paths[d]) \cap DOMAIN slidingOccupancy(query) = {}
       /\ \A s \in firstSquares(query) \ {query.start} :
            (s \in DOMAIN slidingOccupancy(query) /\ slidingOccupancy(query)[s] # query.team)
              => s \in result.moves

\* A queen query that captures an enemy piece at the end of a path of several squares
\* while another line of it stops short of a piece of its own team.
C12_Witness ==
  /\ answered
  /\ query.kind = "sliding"
  /\ idIncludes(query.pieceId, "queen")
  /\ \E d \in result.moves :
       /\ d \in DOMAIN slidingOccupancy(query)
       /\ Len(result.paths[d]) >= 3
  /\ \E s \in firstSquares(query) :
       /\ s \in DOMAIN slidingOccupancy(query)
       /\ slidingOccupancy(query)[s] = query.team
       /\ s \notin result.moves

\* Each consecutive pair of squares of the path is joined by an edge of boardGraph.
isWalk(path) ==
  \A i \in 1..(Len(path) - 1) :
     /\ hasNode(path[i])
     /\ \E dir \in DOMAIN boardGraph[path[i]] : edge(path[i], dir) = path[i + 1]

\* C13: every destination of the MoveResult on display has a path, which begins with
\* the square of the piece the result was computed for, ends with the destination and
\* follows edges of the board graph.
C13_PathsLeadFromPieceToDestination ==
  (movesComputedFor # null /\ rendered(movesComputedFor))
    => \A d \in possibleMoves :
         /\ d \in DOMAIN possibleMovePaths
         /\ possibleMovePaths[d] # <<>>
         /\ possibleMovePaths[d][1] = notationOf(movesComputedFor)
         /\ possibleMovePaths[d][Len(possibleMovePaths[d])] = d
         /\ isWalk(possibleMovePaths[d])

\* The squares that have rows in the pentagon branch tables.
pentagonSquares == DOMAIN pentagonOrthogonalExits

orthogonalDirs == {"N", "S", "E", "W", "in", "out", "cw", "ccw"}

\* The direction a call of the traversal leaves `current` by, after the ring remaps.
leavingDir(current, dir) ==
  IF dir \in orthogonalDirs THEN lineDir(current, dir)
  ELSE diagonalOutDir(current, diagonalInDir(current, dir))

\* The direction the row of the branch table is read by on arrival.
arrivalDir(current, dir) ==
  IF dir \in orthogonalDirs
  THEN lineNextDir(current, leavingDir(current, dir), edge(current, leavingDir(current, dir)))
  ELSE leavingDir(current, dir)

branchTable(dir) ==
  IF dir \in orthogonalDirs THEN pentagonOrthogonalExits ELSE pentagonDiagonalExits

\* C14: a sliding query that steps from its start into an empty pentagon square finds
\* a row of the branch table (orthogonal or diagonal) for the direction it arrives by,
\* and every square one step along a branch of that row which the mover may enter is
\* among the destinations.
C14_PentagonBranchesComplete ==
  (answered /\ query.kind = "sliding")
    => \A d \in slidingDirs(query.pieceId) :
         LET p == edge(query.start, leavingDir(query.start, d))
             key == arrivalDir(query.start, d)
             occ == slidingOccupancy(query)
         IN (p \in pentagonSquares /\ p \notin DOMAIN occ)
              => /\ key \in DOMAIN branchTable(d)[p]
                 /\ \A i \in 1..Len(branchTable(d)[p][key]) :
                      LET sq == edge(p, leavingDir(p, branchTable(d)[p][key][i]))
                      IN (sq # null /\ sq # query.start
                          /\ (sq \in DOMAIN occ => occ[sq] # query.team))
                           => sq \in result.moves

\* The square a pawn move of the log passed over, if it was a two-square advance.
passedOver(entry) ==
  edge(entry.from, pawnForwardDir(getTeamFromId(entry.piece), includesPrime(entry.from)))

isDoubleAdvance(entry) ==
  /\ idIncludes(entry.piece, "pawn")
  /\ passedOver(entry) # null
  /\ hasNode(passedOver(entry))
  /\ entry.to = edge(passedOver(entry),
                     secondForwardDir(getTeamFromId(entry.piece), includesPrime(entry.from),
                                      passedOver(entry)))

\* The squares diagonally ahead of a pawn: the ones it captures on.
captureSquares(pieceId) ==
  {edge(lookup(piecePositions, pieceId), d) :
     d \in IF pawnForwardDir(getTeamFromId(pieceId),
                             includesPrime(lookup(piecePositions, pieceId))) = "N"
           THEN {"NE", "NW"} ELSE {"SE", "SW"}} \ {null}

\* No pawn has been promoted: every piece on the board is one of the named pieces.
noPromotedPiece ==
  \A i \in DOMAIN piecePositions : piecePositions[i].id \in DOMAIN PieceInfo

\* The moves on display are those of a pawn of the team to move, all animations done.
pawnMovesShown ==
  /\ movesComputedFor # null
  /\ idIncludes(movesComputedFor, "pawn")
  /\ hasKey(piecePositions, movesComputedFor)
  /\ timers = <<>>
  /\ capturedPiece = null

moveBeforeLast == moveHistory[Len(moveHistory) - 1]

\* The last move of the log took a pawn onto the square the move before it, a
\* two-square advance of an enemy pawn, passed over.
capturedEnPassant ==
  /\ Len(moveHistory) >= 2
  /\ isDoubleAdvance(moveBeforeLast)
  /\ idIncludes(lastMove.piece, "pawn")
  /\ getTeamFromId(lastMove.piece) # getTeamFromId(moveBeforeLast.piece)
  /\ lastMove.to = passedOver(moveBeforeLast)
  /\ lastMove.from # moveBeforeLast.to
  /\ passedOver(moveBeforeLast) \in
       {edge(lastMove.from, d) : d \in {"NE", "NW", "SE", "SW"}}

squareAhead(square, team, n) ==
  charAt(square, 0)
    \o ToString(IF team \in {1, 3} THEN pawnHomeRank(team) + n ELSE pawnHomeRank(team) - n)
    \o layerSuffix(pawnHomePrime(team))

\* The destinations of a pawn answer that lie two steps away: paths of three squares
\* in the scene with teams, paths that begin on the square stepped over in the scene
\* with players.
twoSquareAdvances ==
  {d \in result.moves :
     IF query.scheme = "team" THEN Len(result.paths[d]) = 3 ELSE Len(result.paths[d]) = 2}

\* C18: a pawn on its team's home rank (rank 2 for teams 1 and 3, rank 7 for teams
\* 2 and 4, on the team's layer) with the two squares ahead of it empty has both of
\* them among its destinations, the second as a two-square advance; asked again
\* after any number of forward moves from there, it has no two-square advance.
C18_DoubleAdvanceFromHomeRankOnly ==
  (answered /\ query.kind = "pawn" /\ query.origin \in pawnHome(query.team))
    => /\ (/\ query.steps = 0
           /\ squareAhead(query.start, query.team, 1) \notin DOMAIN query.others
           /\ squareAhead(query.start, query.team, 2) \notin DOMAIN query.others)
            => /\ squareAhead(query.start, query.team, 1) \in result.moves
               /\ squareAhead(query.start, query.team, 2) \in twoSquareAdvances
       /\ query.steps > 0 => twoSquareAdvances = {}

\* The squares one and (from a starting rank) two steps ahead of the pawn of a query.
forwardSquares(q) ==
  LET oneForward == edge(q.start, pawnForwardDir(q.team, includesPrime(q.start)))
  IN ({oneForward}
        \cup IF oneForward # null /\ hasNode(oneForward) /\ isStartingRank(q.start, q.team)
             THEN {edge(oneForward,
                        secondForwardDir(q.team, includesPrime(q.start), oneForward))}
             ELSE {}) \ {null}

\* The squares diagonally ahead of the pawn of a query, and for a pawn on the rings
\* the squares along the diagonal wormhole directions.
diagonalSquares(q) ==
  {edge(q.start, d) :
     d \in (IF pawnForwardDir(q.team, includesPrime(q.start)) = "N"
            THEN {"NE", "NW"} ELSE {"SE", "SW"})
           \cup (IF withoutPrime(q.start) \in OUTER_LAYER_SQUARES \cup INNER_LAYER_SQUARES
                 THEN {"idl", "idr", "odl", "odr"} ELSE {})} \ {null}

\* What is asked of the destinations of a pawn: an occupied destination is a square
\* diagonally ahead holding an enemy piece, an empty destination is a square straight
\* ahead or the en-passant square diagonally ahead.
soundPawnMoves(q, occupiedByTeam, epSquare, moves) ==
  \A d \in moves :
     /\ d \in DOMAIN occupiedByTeam
          => /\ occupiedByTeam[d] # q.team
             /\ d \in diagonalSquares(q)
     /\ d \notin DOMAIN occupiedByTeam
          => \/ d \in forwardSquares(q)
             \/ d = epSquare /\ d \in diagonalSquares(q)

\* The answers of calculatePawnMoves (scene with teams) to the queries asked on
\* their own, where the en-passant square is an empty square.
pawnAnswersSound ==
  (answered /\ query.kind = "pawn" /\ query.scheme = "team")
    => soundPawnMoves(query, pawnOccupancy(query), query.ep, result.moves)

\* The pawn a step of handlePieceClick computes the moves of, as a query.
pawnSelected ==
  [start |-> lookup(piecePositions, movesComputedFor'),
   team |-> getTeamFromId(movesComputedFor')]

farRank(team) == IF team \in {1, 3} THEN "8" ELSE "1"

\* The square lies on the far rank of the team, on either layer.
onFarRank(square, team) ==
  charAt(square, 0) \in boardFiles /\ charAt(square, 1) = farRank(team)

\* The step replaces the selected pawn by a promoted queen on the square.
promotedAt(square) ==
  /\ ~hasKey(piecePositions', selectedPiece)
  /\ \E i \in DOMAIN piecePositions' :
       /\ piecePositions'[i].pos = square
       /\ piecePositions'[i].id \notin DOMAIN PieceInfo
       /\ ~hasKey(piecePositions, piecePositions'[i].id)

\* The step is handleSquareClick taking the selected pawn to the square, one of the
\* destinations computed for it.
pawnMovesTo(square) ==
  /\ selectedPiece # null
  /\ idIncludes(selectedPiece, "pawn")
  /\ movesComputedFor = selectedPiece
  /\ square \in possibleMoves
  /\ \/ commits /\ moveHistory'[Len(moveHistory')].to = square
     \/ promotedAt(square)

computesMoves == movesComputedFor' # null /\ movesComputedFor' # movesComputedFor

\* What the query answers in the state it is asked in, in either scene.
queryAnswer(pieceId) ==
  IF hasPawn(pawnPositions, pieceId)
  THEN calculatePawnMovesIn(notationOf(pieceId), getPlayerFromPieceId(pieceId),
                            pawnOf(pawnPositions, pieceId).direction,
                            occupiedSquaresOf(piecePositions, pawnPositions))
  ELSE IF idPrefix(pieceId) \in {"player1", "player2", "player3", "player4"}
  THEN movesOver(pieceId, notationOf(pieceId), piecePositions,
                 occupiedSquaresOf(piecePositions, pawnPositions),
                 getPlayerFromPieceId(pieceId), hasMoved, enPassantSquare, "player")
  ELSE movesOfPiece(pieceId, lookup(piecePositions, pieceId), piecePositions,
                    getTeamFromId(pieceId), hasMoved, enPassantSquare)

\* C21: a step that computes the moves of a clicked piece leaves the occupancy, the
\* active team, the en-passant target, the moved-flags and every pawn's direction as
\* they were, and the moves and paths it shows are those the query yields when asked
\* again in the state it leaves.
C21_MoveQueryIsPure ==
  [][computesMoves
       => /\ UNCHANGED <<piecePositions, pawnPositions, currentTeam, currentPlayer,
                         enPassantSquare, hasMoved>>
          /\ possibleMoves' = queryAnswer(movesComputedFor').moves
          /\ possibleMovePaths' = queryAnswer(movesComputedFor').paths]_vars

\* Two square names that differ by the trailing layer marker only.
isMirror(a, b) ==
  \/ SquareChars[b] = Append(SquareChars[a], "'")
  \/ SquareChars[a] = Append(SquareChars[b], "'")

mirrorImage(squares) ==
  {b \in DOMAIN SquareChars : \E a \in squares : isMirror(a, b)}

knightAnswered == answered /\ query.kind = "knight"

\* C22: on an otherwise empty board the knight moves from the mirrored square are the
\* mirror image of the knight moves from the square: as many destinations, each a
\* destination from the square with its layer marker toggled.
C22_KnightMovesMirror ==
  knightAnswered /\ query.others = <<>>
    => \A m \in mirrorImage({query.start}) :
         LET mirrored == calculateKnightMoves(m, m :> query.team, query.team).moves
         IN /\ Cardinality(mirrored) = Cardinality(result.moves)
            /\ mirrored = mirrorImage(result.moves)

\* The destinations the knight has from a square of an empty board.
emptyBoardKnightMoves(start) == calculateKnightMoves(start, <<>>, 1).moves

\* A first-leg or second-leg square of a shown knight move carries a piece.
leapsOverPiece ==
  \E d \in result.moves :
    \/ result.paths[d][2] \in DOMAIN query.others
    \/ result.paths[d][3] \in DOMAIN query.others

\* C23: the knight's occupancy rule looks at the destination only: the move set is
\* the empty-board move set without the destinations that carry a piece of the
\* knight's team (an enemy piece or an empty square stays), whatever stands on the
\* first-leg and second-leg squares.
C23_KnightOccupancyAtDestinationOnly ==
  knightAnswered
    => result.moves =
         {d \in emptyBoardKnightMoves(query.start) :
            d \in DOMAIN knightOccupancy(query) => knightOccupancy(query)[d] # query.team}

\* A knight move is shown although a piece stands on its first or second leg, while
\* another empty-board destination is refused for carrying an own piece, and a third
\* one captures.
C23_Witness ==
  /\ knightAnswered
  /\ leapsOverPiece
  /\ \E d \in emptyBoardKnightMoves(query.start) : d \notin result.moves
  /\ \E d \in result.moves :
       d \in DOMAIN query.others /\ query.others[d] # query.team

\* A rook alone on the board, asked for its moves from the given square.
loneRookOn(square) ==
  /\ answered
  /\ query.kind = "sliding"
  /\ query.pieceId = "team1-rook-a1"
  /\ query.start = square
  /\ query.others = <<>>

\* C24: a rook on a1 with no other piece on the board has the squares a2-a8 of its
\* file and b1-h1 of its rank as its moves, and no other square.
C24_RookOnA1HasRankAndFile ==
  loneRookOn("a1")
    => result.moves = {"a2", "a3", "a4", "a5", "a6", "a7", "a8",
                       "b1", "c1", "d1", "e1", "f1", "g1", "h1"}

\* The rook of team 1 stands on a1, alone, and has been given its moves.
C24_Witness ==
  /\ loneRookOn("a1")
  /\ query.onStart = 1
  /\ query.team = 1
  /\ "a8" \in result.moves /\ "h1" \in result.moves

\* The names the board is made of: the grid squares a1-h8 and the junction tokens
\* x1-x4 and y1-y4, on both layers.
boardNames ==
  {file \o rank \o layer :
     file \in {"a", "b", "c", "d", "e", "f", "g", "h"},
     rank \in {"1", "2", "3", "4", "5", "6", "7", "8"}, layer \in {"", "'"}}
  \cup {token \o index \o layer :
          token \in {"x", "y"}, index \in {"1", "2", "3", "4"}, layer \in {"", "'"}}

\* The squares the edges of a node lead to.
edgeTargets(square) ==
  {boardGraph[square][dir] : dir \in DOMAIN boardGraph[square]} \ {null}

\* C25: the graph has an entry for every grid square and junction token of both
\* layers, and the edges of the square a piece is asked from lead to squares that
\* have an entry (the graph is closed).
C25_BoardGraphClosed ==
  /\ boardNames \subseteq DOMAIN boardGraph
  /\ answered => edgeTargets(query.start) \subseteq boardNames

\* The entries of the graph are the names of the board, no more and no fewer.
graphEntriesComplete == boardNames = DOMAIN boardGraph

kingAnswered == answered /\ query.kind = "kingStep"

kingOccupancy == occupiedByTeamOf(withKingOn(query.layout, query.start, query.team))

sixteenDirections ==
  {"N", "S", "E", "W", "NE", "NW", "SE", "SW", "in", "out", "cw", "ccw",
   "idl", "idr", "odl", "odr"}

\* The neighbours of the king's square in the sixteen directions that do not carry a
\* piece of the king's team.
freeNeighbours ==
  {n \in {edge(query.start, dir) : dir \in sixteenDirections} \ {null} :
     n \in DOMAIN kingOccupancy => kingOccupancy[n] # query.team}

\* The moves shown that are not castling moves: castling walks two squares.
nonCastlingMoves == {d \in result.moves : Len(result.paths[d]) = 2}

castlingMoves == result.moves \ nonCastlingMoves

\* C26: the king's non-castling moves are the neighbours of its square in the sixteen
\* directions that its own team does not occupy, each with the path <<start,
\* destination>>; what else is shown is a castling move along the king's rank.
C26_KingStepsToFreeNeighbours ==
  kingAnswered
    => /\ nonCastlingMoves = freeNeighbours
       /\ \A d \in freeNeighbours : result.paths[d] = <<query.start, d>>
       /\ \A d \in castlingMoves :
            /\ d \notin freeNeighbours
            /\ Len(result.paths[d]) = 3
            /\ query.start \in startingSquares(query.team)

\* A king on a ring square steps along a ring direction, is refused a neighbour held
\* by its own team and captures on another.
C26_Witness ==
  /\ kingAnswered
  /\ \E dir \in {"in", "out", "cw", "ccw", "idl", "idr", "odl", "odr"} :
       edge(query.start, dir) \in result.moves
  /\ \E dir \in sixteenDirections :
       /\ edge(query.start, dir) \in DOMAIN kingOccupancy
       /\ edge(query.start, dir) \notin result.moves
  /\ \E d \in result.moves : d \in DOMAIN kingOccupancy

decoded == answered /\ query.kind = "notation"

\* A grid square a1-h8 or a junction token x1-x4, y1-y4, with or without the layer
\* marker, and nothing after it.
wellFormed(notation) ==
  \E s \in boardNames : SquareChars[s] = notation

invalidNotation(outcome) ==
  outcome.kind = "error" /\ outcome.message = "Invalid chess notation"

\* C27: decoding a malformed notation (unknown file letter, unknown rank digit, a
\* junction token outside x1-x4 and y1-y4, or characters after the square) fails
\* with the invalid-notation error, in chessToGrid and in chessToWorld; no value
\* is returned for it.
C27_MalformedNotationRejected ==
  decoded /\ ~wellFormed(query.notation)
    => invalidNotation(result.grid) /\ invalidNotation(result.world)

\* What does hold: an unknown file letter or rank digit in the first two characters
\* of a notation that does not begin with a junction letter is rejected.
unknownFileOrRankRejected ==
  /\ decoded
  /\ ~startsWith(query.notation, "x") /\ ~startsWith(query.notation, "y")
  /\ \/ charOf(query.notation, 0) \notin {FILES[i] : i \in DOMAIN FILES}
     \/ charOf(query.notation, 1) \notin {RANKS[i] : i \in DOMAIN RANKS}
  => invalidNotation(result.grid)

(***************************************************************************)
(* The rook's step system without a cycle guard: a state is a square and   *)
(* the direction a line leaves it in.                                      *)
(***************************************************************************)
\* The square a state steps to, null at the edge of the board.
aheadOf(state) ==
  IF hasNode(state[1]) THEN edge(state[1], lineDir(state[1], state[2])) ELSE null

\* The states a state continues in: none at the edge of the board or at a piece, the
\* pentagon's exits at a pentagon square, straight on (inverted across layers) else.
continuations(occupiedByTeam, state) ==
  LET next == aheadOf(state)
      nextDir == lineNextDir(state[1], lineDir(state[1], state[2]), next)
  IN IF next = null \/ next \in DOMAIN occupiedByTeam THEN {}
     ELSE IF next \in DOMAIN pentagonOrthogonalExits
     THEN {<<next, exitsOf(pentagonOrthogonalExits, next, nextDir)[i]>> :
             i \in DOMAIN exitsOf(pentagonOrthogonalExits, next, nextDir)}
     ELSE {<<next, nextDir>>}

RECURSIVE statesFrom(_, _, _)
statesFrom(occupiedByTeam, seen, frontier) ==
  IF frontier = {} THEN seen
  ELSE statesFrom(occupiedByTeam, seen \cup frontier,
                  UNION {continuations(occupiedByTeam, s) : s \in frontier}
                    \ (seen \cup frontier))

rookStates(start, occupiedByTeam) ==
  statesFrom(occupiedByTeam, {},
             {<<start, orthogonalInitialDirs[i]>> : i \in DOMAIN orthogonalInitialDirs})

\* The squares the unguarded system steps onto: empty squares and enemy pieces.
reachableSquares(start, occupiedByTeam, team) ==
  {sq \in {aheadOf(s) : s \in rookStates(start, occupiedByTeam)} \ {null} :
     sq \in DOMAIN occupiedByTeam => occupiedByTeam[sq] # team}

rookAnswered == answered /\ query.kind = "sliding" /\ query.pieceId = "team1-rook-a1"

\* C28: the cycle guard of traverseLine removes no destination: the rook's moves are
\* the squares reachable in the step system of remap, layer inversion and pentagon
\* fan-out explored without a guard, stopping at pieces, minus the start square.
C28_CycleGuardLosesNothing ==
  rookAnswered
    => result.moves
         = reachableSquares(query.start, slidingOccupancy(query), query.team)
             \ {query.start}

\* Two pentagon branches of one query run into the same state (the same edge in the
\* same direction), and the squares beyond it are among the rook's moves.
C28_Witness ==
  /\ rookAnswered
  /\ \E s \in rookStates(query.start, slidingOccupancy(query)) :
       /\ aheadOf(s) \in result.moves
       /\ \E p1, p2 \in rookStates(query.start, slidingOccupancy(query)) :
            /\ p1 # p2
            /\ aheadOf(p1) \in DOMAIN pentagonOrthogonalExits
            /\ aheadOf(p2) \in DOMAIN pentagonOrthogonalExits
            /\ \E m \in continuations(slidingOccupancy(query), p1)
                          \cap continuations(slidingOccupancy(query), p2) :
                 s \in continuations(slidingOccupancy(query), m) \cup {m}

\* The lower half of a file through the wormhole: ranks 1 to 4 on the upper layer,
\* then ranks 4 to 1 on the lower layer.
throughWormhole(file) ==
  <<file \o "1", file \o "2", file \o "3", file \o "4",
    file \o "4'", file \o "3'", file \o "2'", file \o "1'">>

\* The same squares walked from the lower layer.
reversed(squares) == [i \in DOMAIN squares |-> squares[Len(squares) + 1 - i]]

\* The rook alone on the first square of the line has every further square of the
\* line among its moves, reached along the line.
slidesAlong(fileLine) ==
  loneRookOn(fileLine[1])
    => \A i \in 2..Len(fileLine) :
         /\ fileLine[i] \in result.moves
         /\ result.paths[fileLine[i]] = SubSeq(fileLine, 1, i)

\* C29: a rook line that crosses into the other layer goes on there with its
\* direction inverted: on an empty board a rook on d1 has d2, d3, d4, d4', d3', d2'
\* and d1' among its moves, a rook on d1' has d1 among them, and the same on the
\* e-file.
C29_RookLineCrossesLayers ==
  \A file \in {"d", "e"} :
    /\ slidesAlong(throughWormhole(file))
    /\ slidesAlong(reversed(throughWormhole(file)))

\* The rook of team 1 alone on d1 is shown d1' at the end of the line through d4 and
\* d4'.
C29_Witness ==
  /\ loneRookOn("d1")
  /\ query.onStart = 1 /\ query.team = 1
  /\ "d1'" \in result.moves
  /\ result.paths["d1'"] = throughWormhole("d")

\* A move query of any piece has been answered.
movesAnswered == answered /\ query.kind # "notation"

\* C30: every destination of a computed move set, and every square of every returned
\* path, has an entry in the board graph.
C30_MovesStayOnBoardGraph ==
  movesAnswered
    => /\ result.moves \subseteq boardSquares
       /\ \A d \in DOMAIN result.paths :
            \A i \in DOMAIN result.paths[d] : result.paths[d][i] \in boardSquares

\* The identifiers standing on the board.
idsOn(positions) == {positions[i].id : i \in DOMAIN positions}

\* The identifiers of the pieces the scene starts with.
initialIds == idsOn(initialPiecePositions)

\* C31: a piece that has been captured and removed never stands on a square again: no
\* step puts an identifier of the initial layout that is off the board back into
\* piecePositions.
C31_CapturedPieceStaysOff ==
  [][\A id \in initialIds \ idsOn(piecePositions) : id \notin idsOn(piecePositions')]_vars

\* The square the most recent committed move of a piece ends on.
lastDestination(pieceId) ==
  moveHistory[CHOOSE n \in DOMAIN moveHistory :
                /\ moveHistory[n].piece = pieceId
                /\ \A later \in DOMAIN moveHistory :
                     moveHistory[later].piece = pieceId => later <= n].to

\* C32: once every pending animation step has run, each piece on the board that has
\* been moved stands on the final square of the most recent move committed for it.
C32_PiecesRestOnLastDestination ==
  noAnimationPending
    => \A id \in idsOn(piecePositions) :
         hasMadeMove(id) => lookup(piecePositions, id) = lastDestination(id)

\* The moves of a rook standing alone on a square.
loneRookMoves(square, team) ==
  calculateOrthogonalMoves(square, square :> team, team).moves

\* The squares of the upper layer.
upperSquares == {s \in boardSquares : ~endsWithPrime(s)}

\* C33: on an empty board rook reachability is symmetric: every square the rook
\* reaches from its square is a square from which the rook reaches that square.
\* Stated for the pairs of squares of the upper layer, which the claim includes.
C33_RookReachabilitySymmetric ==
  \A s \in upperSquares :
    loneRookOn(s) /\ query.onStart = query.team
      => \A t \in result.moves \cap upperSquares : s \in loneRookMoves(t, query.team)

\* A bishop alone on the board, asked for its moves from its square.
loneBishopAnswered ==
  /\ answered
  /\ query.kind = "sliding"
  /\ query.pieceId = "team1-bishop-c1"
  /\ query.others = <<>>
  /\ query.onStart = query.team

\* C34: on an empty board the bishop moves from the mirrored square are the mirror
\* image of the bishop moves from the square: every destination with its layer
\* marker toggled.
C34_BishopMovesMirror ==
  loneBishopAnswered
    => \A m \in mirrorImage({query.start}) :
         calculateDiagonalMoves(m, m :> query.team, query.team).moves
           = mirrorImage(result.moves)

\* The steps of a king alone on a square; a name that is no node of the graph has none.
loneKingSteps(square, team) ==
  IF hasNode(square) THEN kingSteps(square, square :> team, team).moves ELSE {}

loneKingAnswered == kingAnswered /\ query.layout = <<>>

\* C35: on an empty board the king-step relation is symmetric: a square the king steps
\* to from its square is a square from which the king steps back (stated for a king
\* that starts on the upper layer).
C35_KingStepsSymmetric ==
  loneKingAnswered /\ query.start \in upperSquares
    => \A t \in nonCastlingMoves : query.start \in loneKingSteps(t, query.team)

\* The pawn's moves can be computed: its direction is defined, and on a pentagon
\* square it is a key of that square's row of pawnMoveDirs.
hasUsableDirection(pawn) ==
  /\ pawn.direction # null
  /\ pawn.position \in DOMAIN pawnMoveDirs
       => pawn.direction \in DOMAIN pawnMoveDirs[pawn.position]

\* C36: once every move has been fully applied, each pawn on the board has a defined
\* direction, and a pawn on a pentagon square faces a direction that the pawn branch
\* table has a row for.
C36_PawnsKeepUsableDirection ==
  noAnimationPending
    => \A i \in DOMAIN pawnPositions : hasUsableDirection(pawnPositions[i])

\* A step of handleSquareClick that commits a move: the move log grows by one entry.
moveCommitted == Len(moveHistory') = Len(moveHistory) + 1

takesPart(player, playerIds) == \E i \in DOMAIN playerIds : playerIds[i] = player

\* C37: in competitive mode a committed move passes the turn to a player of the players
\* menu: the turn never comes to a player that has been removed.
C37_TurnPassesToRemainingPlayer ==
  [][moveCommitted /\ ~sandboxMode => takesPart(currentPlayer', players')]_vars

entriesOf(positions) == {positions[i] : i \in DOMAIN positions}

\* A fresh game of the players of the menu: their pieces and pawns on the default
\* squares with the default directions, nothing selected or highlighted, player 1 to
\* move.
freshGame(pieces, pawns, selected, highlighted, player, playerIds) ==
  /\ entriesOf(pieces) = {e \in entriesOf(DEFAULT_PIECE_POSITIONS) :
                            takesPart(getPlayerFromPieceId(e.id), playerIds)}
  /\ entriesOf(pawns) = {e \in entriesOf(DEFAULT_PAWN_POSITIONS) :
                           takesPart(getPlayerFromPieceId(e.id), playerIds)}
  /\ selected = null
  /\ highlighted = {}
  /\ player = 1

\* C38: the state after Reset Game is a fresh game for the players of the menu.
C38_ResetGivesFreshGame ==
  [][handleResetGame
       => freshGame(piecePositions', pawnPositions', selectedPiece', possibleMoves',
                    currentPlayer', players')]_vars

\* The zero-based file and rank of a grid square; -1 for the letter or digit of a
\* junction token.
fileOf(square) == indexOf(FILES, charAt(square, 0))
rankOf(square) == indexOf(RANKS, charAt(square, 1))

\* A square of the flat grid: a grid square outside the files c-f of the ranks 3-6,
\* where the ring boundary with its pentagon corners and the inner ring lie.
flatSquare(square) ==
  /\ hasNode(square)
  /\ fileOf(square) >= 0 /\ rankOf(square) >= 0
  /\ ~(fileOf(square) \in 2..5 /\ rankOf(square) \in 2..5)

stepsOf(steps) == {steps[i] : i \in DOMAIN steps}

firstLegs(start) ==
  UNION {stepsOf(moveOneSquare(start, primaryDirs[a])) : a \in DOMAIN primaryDirs}

secondLegs(start) ==
  UNION {stepsOf(moveOneSquare(s1.square, s1.nextDir)) : s1 \in firstLegs(start)}

thirdLegs(start) ==
  UNION {UNION {stepsOf(moveOneSquare(s2.square, perpDir)) :
                  perpDir \in stepsOf(getPerpendicularDirs(s2.square, s2.nextDir))} :
           s2 \in secondLegs(start)}

\* The squares the two-plus-one walks of a knight on the start square touch.
walkSquares(start) ==
  {start} \cup {s.square : s \in firstLegs(start) \cup secondLegs(start) \cup thirdLegs(start)}

distance(a, b) == IF a >= b THEN a - b ELSE b - a

\* The knight set of chess: the grid squares of the same layer at file and rank
\* offsets (1, 2) and (2, 1).
standardKnightSet(start) ==
  {t \in boardSquares :
     /\ fileOf(t) >= 0 /\ rankOf(t) >= 0
     /\ endsWithPrime(t) = endsWithPrime(start)
     /\ <<distance(fileOf(t), fileOf(start)), distance(rankOf(t), rankOf(start))>>
          \in {<<1, 2>>, <<2, 1>>}}

flatKnightAnswered ==
  /\ knightAnswered
  /\ query.others = <<>>
  /\ \A s \in walkSquares(query.start) : flatSquare(s)

\* C39: on an empty board a knight whose walks touch only squares of the flat grid
\* moves to exactly the squares of the chess knight set on its layer.
C39_FlatKnightMovesAsInChess ==
  flatKnightAnswered => result.moves = standardKnightSet(query.start)

\* A knight on a corner of the lower layer has been asked for its moves and is shown
\* the two squares of the chess knight set.
C39_Witness ==
  /\ flatKnightAnswered
  /\ query.start = "h8'"
  /\ result.moves = {"g6'", "f7'"}

====
